---- MODULE Spec2Model ----
(***************************************************************************)
(* Sentra-Pay risk decision pipeline (Backend/app/core).                   *)
(*                                                                         *)
(* Scores are Python floats in the source.  The model keeps them exact:   *)
(*   - rule and model scores are integers in hundredths (0.35 is 35),      *)
(*   - the fused score is an integer in millionths (0.45 is 450000),       *)
(*     because it is (70*b + 30*r) hundredths^2 times a multiplier in      *)
(*     hundredths,                                                         *)
(*   - averages and ratios are fractions [n, d] with d > 0, compared by   *)
(*     cross-multiplication.                                               *)
(* A Python dict whose keys may be missing is a record with a field keys,  *)
(* the set of keys present; the field of a missing key holds a filler.     *)
(* An Optional value is <<>> (None) or <<v>>.                              *)
(***************************************************************************)
EXTENDS Integers, Sequences, FiniteSets, TLC

VARIABLES
    pc,            \* position of the run or of the function application
    txn_data,      \* the intent: [amount, receiver, device_id]
    user_id,       \* public user id of the run
    save,          \* the persist option of analyze_transaction
    context,       \* UserContext built by get_user_context, or None
    rule_result,   \* RuleResult of evaluate, or None
    ml_result,     \* MLResult of predict, or None
    fused,         \* outcome of _combine_scores, or None
    action_result, \* the action record the resolver works on, or None
    response,      \* what analyze_transaction returned, or None
    exception,     \* the exception that left the call, or None
    calls,         \* the pipeline stages invoked by this run, in order
    new_txn,       \* the Transaction row the run created, or None
    runs,          \* number of runs started so far (the source of row ids)
    model,         \* ml_engine.model: "None" or "CatBoostClassifier"
    model_available, \* ml_engine.model_available
    db_users,      \* users table: user_id -> None or a row
    db_reputation, \* receiver_reputation table: receiver -> None or a row
    db_txns,       \* committed rows of the transactions table
    db_events,     \* committed rows of the risk_events table
    cache_profile, \* redis user profile entries: user_id -> None or a profile
    cache_reputation, \* redis receiver_reputation entries
    db_history,    \* committed rows of the receiver_history table
    payments,      \* payments initiated at the payment service, in order
    faults,        \* the failures the environment produced, as pairs of a
                   \* kind and the number of the call or run it struck
    workers        \* the requests in flight on other workers: id -> local state

vars == <<pc, txn_data, user_id, save, context, rule_result, ml_result, fused,
          action_result, response, exception, calls, new_txn, runs,
          model, model_available, db_users, db_reputation, db_txns, db_events,
          cache_profile, cache_reputation, db_history, payments, faults,
          workers>>

None == <<>>
Some(v) == <<v>>

\* ---------------------------------------------------------------------
\* Units
\* ---------------------------------------------------------------------
\* 1.0 as a rule or model score (hundredths)
ScoreOne == 100
\* 1.0 as a fused score (millionths)
FusedOne == 1000000

Min(a, b) == IF a <= b THEN a ELSE b
Max(a, b) == IF a >= b THEN a ELSE b

\* fraction n/d, d > 0
Frac(n, d) == [n |-> n, d |-> d]
FracGT(a, b) == a.n * b.d > b.n * a.d
FracMin(a, b) == IF FracGT(a, b) THEN b ELSE a
FracMax(a, b) == IF FracGT(a, b) THEN a ELSE b

\* ---------------------------------------------------------------------
\* rules_engine.py
\* ---------------------------------------------------------------------
\* receiver_info.get(key, default) on the dict modelled as a record
DictGet(d, key, default) == IF key \in d.keys THEN d[key] ELSE default

\* check_velocity with the dormant-burst rule chained to the 5-minute rule by
\* elif, so that a burst scores once
check_velocity_elif(txn_count_5min, txn_count_1hour, days_since_last) ==
    LET first == IF days_since_last > 7 /\ txn_count_5min >= 3 THEN 35
                 ELSE IF txn_count_5min >= 5 THEN 25
                 ELSE IF txn_count_5min >= 3 THEN 15 ELSE 0
        hour  == IF txn_count_1hour >= 15 THEN 20
                 ELSE IF txn_count_1hour >= 10 THEN 10 ELSE 0
    IN  Min(first + hour, ScoreOne)

check_velocity(txn_count_5min, txn_count_1hour, days_since_last) ==
    LET dormant == IF days_since_last > 7 /\ txn_count_5min >= 3 THEN 35 ELSE 0
        five    == IF txn_count_5min >= 5 THEN 25
                   ELSE IF txn_count_5min >= 3 THEN 15 ELSE 0
        hour    == IF txn_count_1hour >= 15 THEN 20
                   ELSE IF txn_count_1hour >= 10 THEN 10 ELSE 0
    IN  Min(dormant + five + hour, ScoreOne)

check_blacklist(receiver_info) ==
    IF receiver_info.keys = {}
    THEN [is_blacklisted |-> FALSE, reason |-> None]
    ELSE LET fraud_ratio == DictGet(receiver_info, "fraud_ratio", Frac(0, 1))
             total_txns  == DictGet(receiver_info, "total_transactions", 0)
             fraud_count == DictGet(receiver_info, "fraud_count", 0)
         IN  IF FracGT(fraud_ratio, Frac(70, 100)) /\ total_txns >= 10
             THEN [is_blacklisted |-> TRUE, reason |-> Some("fraud rate")]
             ELSE IF fraud_count >= 7 /\ total_txns >= 10
             THEN [is_blacklisted |-> TRUE, reason |-> Some("fraud transactions")]
             ELSE [is_blacklisted |-> FALSE, reason |-> None]

check_amount_anomaly(amount, avg_amount_30d_in, max_amount_30d, receiver_info) ==
    LET avg_amount_30d == IF avg_amount_30d_in.n = 0 THEN Frac(1000, 1)
                          ELSE avg_amount_30d_in
        is_new_receiver == IF receiver_info.keys = {} THEN TRUE
                           ELSE DictGet(receiver_info, "is_new", FALSE)
        \* amount / avg compared with k: amount * d > k * n
        ratioGT(k) == amount * avg_amount_30d.d > k * avg_amount_30d.n
        newHigh == IF is_new_receiver /\ ratioGT(3) THEN 30 ELSE 0
        extreme == IF ratioGT(5) THEN 25 ELSE IF ratioGT(3) THEN 15 ELSE 0
        overMax == IF max_amount_30d > 0 /\ 2 * amount > 3 * max_amount_30d
                   THEN 10 ELSE 0
    IN  Min(newHigh + extreme + overMax, ScoreOne)

check_device_change(device_id, known_devices) ==
    IF device_id = "" THEN 0
    ELSE IF device_id \notin known_devices THEN 15
    ELSE 0

\* check_failed_txn_pattern with strict comparisons (more than 5, more than 3)
check_failed_txn_pattern_strict(failed_count) ==
    IF failed_count > 5 THEN 20
    ELSE IF failed_count > 3 THEN 10
    ELSE 0

check_failed_txn_pattern(failed_count) ==
    IF failed_count >= 5 THEN 20
    ELSE IF failed_count >= 3 THEN 10
    ELSE 0

\* RuleResult() as constructed
RuleResult0 ==
    [rule_score |-> 0, flags |-> <<>>, hard_block |-> FALSE,
     block_reason |-> None,
     rule_breakdown |-> [keys |-> {}, velocity |-> 0, amount_anomaly |-> 0,
                         device_change |-> 0, failed_pattern |-> 0]]

FlagIf(cond, flag) == IF cond THEN <<flag>> ELSE <<>>

evaluate(txn, ctx) ==
    LET velocity_score ==
            check_velocity(ctx.txn_stats.txn_count_5min,
                           ctx.txn_stats.txn_count_1hour,
                           ctx.txn_stats.days_since_last_txn)
        flags1 == FlagIf(velocity_score > 0, "VELOCITY_SPIKE")
        blacklist_result == check_blacklist(ctx.receiver_info)
        amount_anomaly_score ==
            check_amount_anomaly(txn.amount, ctx.txn_stats.avg_amount_30d,
                                 ctx.txn_stats.max_amount_30d, ctx.receiver_info)
        flags2 == flags1 \o FlagIf(amount_anomaly_score > 0, "NEW_RECEIVER_HIGH_AMOUNT")
        device_score == check_device_change(txn.device_id,
                                            ctx.user_profile.known_devices)
        flags3 == flags2 \o FlagIf(device_score > 0, "DEVICE_CHANGE")
        failed_txn_score ==
            check_failed_txn_pattern(ctx.txn_stats.failed_txn_count_7d)
        flags4 == flags3 \o FlagIf(failed_txn_score > 0, "HIGH_FAILED_TXN")
    IN  IF blacklist_result.is_blacklisted
        THEN [RuleResult0 EXCEPT
                 !.flags = flags1,
                 !.hard_block = TRUE,
                 !.block_reason = blacklist_result.reason,
                 !.rule_breakdown.keys = {"velocity"},
                 !.rule_breakdown.velocity = velocity_score]
        ELSE [rule_score |-> Min(velocity_score + amount_anomaly_score
                                 + device_score + failed_txn_score, ScoreOne),
              flags |-> flags4,
              hard_block |-> FALSE,
              block_reason |-> None,
              rule_breakdown |-> [keys |-> {"velocity", "amount_anomaly",
                                            "device_change", "failed_pattern"},
                                  velocity |-> velocity_score,
                                  amount_anomaly |-> amount_anomaly_score,
                                  device_change |-> device_score,
                                  failed_pattern |-> failed_txn_score]]

\* ---------------------------------------------------------------------
\* ml_engine.py
\* ---------------------------------------------------------------------
\* The features that calculate_fallback_score or a later stage reads, and the
\* amount features; the hour-of-day encodings, amount_log and receiver_type
\* feed only the classifier, whose answer is an input of predict here.
engineer_features(txn, ctx) ==
    LET amount == txn.amount
        stats == ctx.txn_stats
        profile == ctx.user_profile
        receiver_info == ctx.receiver_info
        avg_raw == DictGet(stats, "avg_amount_30d", Frac(1000, 1))
        avg_30d == IF avg_raw.n = 0 THEN Frac(1000, 1) ELSE avg_raw
        txn_count_1hour == DictGet(stats, "txn_count_1hour", 0)
        is_round == IF amount > 0 /\ amount % 100 = 0 THEN 1 ELSE 0
        velocity_check == IF txn_count_1hour > 5 THEN 1 ELSE 0
        \* amount / avg_30d
        deviation == Frac(amount * avg_30d.d, avg_30d.n)
        max_7d == DictGet(stats, "max_amount_7d", 0)
        exceeds_max == IF amount > max_7d /\ max_7d > 0 THEN 1 ELSE 0
        \* amount / (avg_30d + 1.0)
        ratio_30d == Frac(amount * avg_30d.d, avg_30d.n + avg_30d.d)
        risky == DictGet(receiver_info, "risky_history", FALSE)
        good == DictGet(receiver_info, "good_history", FALSE)
        rep == DictGet(receiver_info, "reputation_score", Frac(10, 100))
        risk_profile == IF risky THEN FracMax(rep, Frac(80, 100))
                        ELSE IF good THEN FracMin(rep, Frac(5, 100))
                        ELSE rep
    IN  [amount |-> amount,
         payment_mode |-> 2,
         is_new_receiver |-> IF DictGet(receiver_info, "is_new", FALSE) THEN 1 ELSE 0,
         avg_amount_7d |-> DictGet(stats, "avg_amount_7d", 0),
         avg_amount_30d |-> avg_30d,
         max_amount_7d |-> max_7d,
         txn_count_1h |-> txn_count_1hour,
         txn_count_24h |-> DictGet(stats, "txn_count_24h", 0),
         days_since_last_txn |-> DictGet(stats, "days_since_last_txn", 999),
         location_mismatch |-> 0,
         is_round_amount |-> is_round,
         velocity_check |-> velocity_check,
         deviation_from_sender_avg |-> deviation,
         exceeds_recent_max |-> exceeds_max,
         ratio_30d |-> ratio_30d,
         risk_profile |-> risk_profile,
         risky_history_flag |-> IF risky THEN 1 ELSE 0,
         good_history_flag |-> IF good THEN 1 ELSE 0,
         amount_to_avg_ratio |-> deviation,
         device_change_flag |->
             IF txn.device_id # "" /\ txn.device_id \notin profile.known_devices
             THEN 1 ELSE 0,
         receiver_reputation_score |-> risk_profile]

\* the additive heuristic before the final clamp (lines 219-247)
fallback_sum(features) ==
    LET history == IF features.risky_history_flag = 1 THEN 35
                   ELSE IF features.good_history_flag = 1 THEN 0 - 15 ELSE 0
        deviation == features.deviation_from_sender_avg
        dev == IF FracGT(deviation, Frac(10, 1)) THEN 40
               ELSE IF FracGT(deviation, Frac(5, 1)) THEN 25 ELSE 0
        newr == IF features.is_new_receiver = 1 /\ features.good_history_flag = 0
                THEN 15 ELSE 0
        vel == IF features.txn_count_1h >= 5 \/ features.velocity_check = 1
               THEN 25 ELSE 0
        device == IF features.device_change_flag = 1 THEN 15 ELSE 0
        profile == IF FracGT(features.risk_profile, Frac(70, 100)) THEN 25 ELSE 0
    IN  history + dev + newr + vel + device + profile

\* calculate_fallback_score returning the sum without the clamp of line 249
calculate_fallback_score_unclamped(features) ==
    fallback_sum(features)

calculate_fallback_score(features) ==
    Max(0, Min(fallback_sum(features), ScoreOne))

\* What model.predict_proba does on one call: it raises, or it returns the
\* probability of the fraud class.
MLResult(ml_score, features, model_version) ==
    [ml_score |-> ml_score, features |-> features, model_version |-> model_version]

predict(txn, ctx, mdl, available, outcome) ==
    LET features == engineer_features(txn, ctx)
    IN  IF available /\ mdl # "None"
        THEN IF outcome.raises
             THEN MLResult(calculate_fallback_score(features), features, "v1.1-fallback")
             ELSE MLResult(outcome.proba, features, "v1.1")
        ELSE MLResult(calculate_fallback_score(features), features, "rule-fallback")

\* ---------------------------------------------------------------------
\* risk_orchestrator.py: _combine_scores
\* ---------------------------------------------------------------------
Returned(v) == [raised |-> FALSE, error |-> "", value |-> v]
Raised(e) == [raised |-> TRUE, error |-> e, value |-> 0]

\* damage multiplier in hundredths from ratio = amount / (avg_amount + 1.0)
damage_multiplier(amount, avg_amount) ==
    LET num == amount * avg_amount.d
        den == avg_amount.n + avg_amount.d
    IN  IF 10 * num < 3 * den THEN 25
        ELSE IF num < den THEN 50
        ELSE IF num < 3 * den THEN 80
        ELSE 100

\* the local final at line 277, in millionths
combine_final(rule_score, ml_score, ctx, txn) ==
    LET avg_amount == DictGet(ctx.txn_stats, "avg_amount_30d", Frac(1000, 1))
        behavior_score == Max(ml_score, rule_score)
        final_raw == 70 * behavior_score + 30 * rule_score
    IN  final_raw * damage_multiplier(txn.amount, avg_amount)

\* lines 285-289, given the value of is_new
forgive_and_clamp(final, is_new, amount, avg_amount) ==
    LET small == amount <= 250
                 /\ 20 * amount * avg_amount.d <= avg_amount.n + avg_amount.d
        softened == IF is_new /\ small THEN Min(final, 450000) ELSE final
    IN  Max(0, Min(FusedOne, softened))

\* What the name receiver_history is bound to when line 284 runs.  It is not
\* a parameter or a local of _combine_scores (lines 236-289), not a global
\* of the module (its imports, lines 6-19, logger, RiskOrchestrator and
\* orchestrator) and not a builtin: the name has no binding.
receiver_history == None

combine_scores(rule_score, ml_score, flags, ctx, txn) ==
    LET final == combine_final(rule_score, ml_score, ctx, txn)
        avg_amount == DictGet(ctx.txn_stats, "avg_amount_30d", Frac(1000, 1))
    IN  IF receiver_history = None
        THEN Raised("NameError")
        ELSE Returned(forgive_and_clamp(
                 final, DictGet(receiver_history[1], "is_new", TRUE),
                 txn.amount, avg_amount))

\* ---------------------------------------------------------------------
\* risk_orchestrator.py: analyze_transaction, STEP 5 (lines 145-190)
\* ---------------------------------------------------------------------
\* settings.RISK_THRESHOLD_MODERATE and settings.RISK_THRESHOLD_HIGH, in
\* millionths
RISK_THRESHOLD_MODERATE == 600000
RISK_THRESHOLD_HIGH == 800000

Actions == {"ALLOW", "WARNING", "OTP_REQUIRED", "BLOCK"}
RiskLevels == {"LOW", "MODERATE", "HIGH", "VERY_HIGH"}

SeqToSet(q) == {q[i] : i \in 1..Len(q)}

identity_flags == {"IMPOSSIBLE_TRAVEL", "NEW_DEVICE"}

identity_risk(flags, ctx) ==
    \/ SeqToSet(flags) \cap identity_flags # {}
    \/ DictGet(ctx.txn_stats, "impossible_travel_flag", FALSE)

\* apply_policy whose first branch forgets to set requires_otp
apply_policy_no_stepup(action_in, final_score, id_risk) ==
    IF id_risk /\ final_score < RISK_THRESHOLD_MODERATE
    THEN [action_in EXCEPT !.action = "OTP_REQUIRED", !.risk_level = "HIGH"]
    ELSE IF final_score >= RISK_THRESHOLD_HIGH /\ ~id_risk
    THEN [action_in EXCEPT !.action = "WARNING", !.requires_otp = FALSE,
                           !.risk_level = "HIGH"]
    ELSE IF id_risk /\ final_score >= RISK_THRESHOLD_HIGH
    THEN [action_in EXCEPT !.action = "BLOCK", !.requires_otp = FALSE,
                           !.risk_level = "VERY_HIGH"]
    ELSE action_in

\* apply_policy without the high-fraud branch: a high score without identity
\* risk keeps whatever get_action chose
apply_policy_no_warning(action_in, final_score, id_risk) ==
    IF id_risk /\ final_score < RISK_THRESHOLD_MODERATE
    THEN [action_in EXCEPT !.action = "OTP_REQUIRED", !.requires_otp = TRUE,
                           !.risk_level = "HIGH"]
    ELSE IF id_risk /\ final_score >= RISK_THRESHOLD_HIGH
    THEN [action_in EXCEPT !.action = "BLOCK", !.requires_otp = FALSE,
                           !.risk_level = "VERY_HIGH"]
    ELSE action_in

\* apply_policy whose second branch lost its "and not identity_risk": every
\* high score becomes a WARNING and the BLOCK branch is never taken
apply_policy_warning_first(action_in, final_score, id_risk) ==
    IF id_risk /\ final_score < RISK_THRESHOLD_MODERATE
    THEN [action_in EXCEPT !.action = "OTP_REQUIRED", !.requires_otp = TRUE,
                           !.risk_level = "HIGH"]
    ELSE IF final_score >= RISK_THRESHOLD_HIGH
    THEN [action_in EXCEPT !.action = "WARNING", !.requires_otp = FALSE,
                           !.risk_level = "HIGH"]
    ELSE IF id_risk /\ final_score >= RISK_THRESHOLD_HIGH
    THEN [action_in EXCEPT !.action = "BLOCK", !.requires_otp = FALSE,
                           !.risk_level = "VERY_HIGH"]
    ELSE action_in

\* the post-processing of the action get_action returned; the message and
\* the recommendations are texts that no decision reads
apply_policy(action_in, final_score, id_risk) ==
    LET low_thr == RISK_THRESHOLD_MODERATE
        high_thr == RISK_THRESHOLD_HIGH
    IN  IF id_risk /\ final_score < low_thr
        THEN [action_in EXCEPT !.action = "OTP_REQUIRED",
                               !.requires_otp = TRUE,
                               !.risk_level = "HIGH"]
        ELSE IF final_score >= high_thr /\ ~id_risk
        THEN [action_in EXCEPT !.action = "WARNING",
                               !.requires_otp = FALSE,
                               !.risk_level = "HIGH"]
        ELSE IF id_risk /\ final_score >= high_thr
        THEN [action_in EXCEPT !.action = "BLOCK",
                               !.requires_otp = FALSE,
                               !.risk_level = "VERY_HIGH"]
        ELSE action_in

\* ---------------------------------------------------------------------
\* context_engine.py
\* ---------------------------------------------------------------------
\* A row of the transactions table is [tid, user, status, age, amount]; age
\* is now - created_at in minutes.
MinutesPerDay == 1440

RECURSIVE SumAmounts(_)
SumAmounts(rows) ==
    IF rows = {} THEN 0
    ELSE LET r == CHOOSE x \in rows : TRUE
         IN  r.amount + SumAmounts(rows \ {r})

MaxAmount(rows) == CHOOSE m \in {r.amount : r \in rows} :
                       \A r \in rows : r.amount <= m

StatsKeys == {"avg_amount_30d", "max_amount_30d", "txn_count_30d",
              "txn_count_1hour", "txn_count_5min", "failed_txn_count_7d",
              "days_since_last_txn", "user_tenure_days"}

\* the statistics dict carrying an impossible-travel indicator, set when the
\* user was idle for more than a week
StatsDict_with_travel(avg, mx, c30, c1h, c5, failed, days, tenure) ==
    [keys |-> StatsKeys \cup {"impossible_travel_flag"},
     avg_amount_30d |-> avg, max_amount_30d |-> mx, txn_count_30d |-> c30,
     txn_count_1hour |-> c1h, txn_count_5min |-> c5,
     failed_txn_count_7d |-> failed, days_since_last_txn |-> days,
     user_tenure_days |-> tenure,
     impossible_travel_flag |-> (days > 7), max_amount_7d |-> 0,
     avg_amount_7d |-> 0, txn_count_24h |-> 0]

\* the dict literal of lines 119-128 and 186-195; the last five fields are
\* fillers of keys the function never sets
StatsDict(avg, mx, c30, c1h, c5, failed, days, tenure) ==
    [keys |-> StatsKeys,
     avg_amount_30d |-> avg, max_amount_30d |-> mx, txn_count_30d |-> c30,
     txn_count_1hour |-> c1h, txn_count_5min |-> c5,
     failed_txn_count_7d |-> failed, days_since_last_txn |-> days,
     user_tenure_days |-> tenure,
     impossible_travel_flag |-> FALSE, max_amount_7d |-> 0,
     avg_amount_7d |-> 0, txn_count_24h |-> 0]

\* statistics whose queries do not filter on the user
calculate_user_stats_all_users(uid, users, rows) ==
    IF users[uid] = None
    THEN StatsDict(Frac(0, 1), 0, 0, 0, 0, 0, 999, 0)
    ELSE LET mine == rows
             txns_30d == {r \in mine : r.age <= 30 * MinutesPerDay
                                       /\ r.status = "COMPLETED"}
             avg == IF txns_30d = {} THEN Frac(0, 1)
                    ELSE Frac(SumAmounts(txns_30d), Cardinality(txns_30d))
             mx == IF txns_30d = {} THEN 0 ELSE MaxAmount(txns_30d)
             c1h == Cardinality({r \in mine : r.age <= 60})
             c5 == Cardinality({r \in mine : r.age <= 5})
             failed == Cardinality({r \in mine : r.age <= 7 * MinutesPerDay
                                                 /\ r.status = "FAILED"})
             last_age == CHOOSE a \in {r.age : r \in mine} :
                             \A r \in mine : a <= r.age
             days == IF mine = {} THEN 999 ELSE last_age \div MinutesPerDay
         IN  StatsDict(avg, mx, Cardinality(txns_30d), c1h, c5, failed, days,
                       users[uid][1].tenure_days)

\* rows is what the session's queries see
calculate_user_stats(uid, users, rows) ==
    IF users[uid] = None
    THEN StatsDict(Frac(0, 1), 0, 0, 0, 0, 0, 999, 0)
    ELSE LET mine == {r \in rows : r.user = uid}
             txns_30d == {r \in mine : r.age <= 30 * MinutesPerDay
                                       /\ r.status = "COMPLETED"}
             avg == IF txns_30d = {} THEN Frac(0, 1)
                    ELSE Frac(SumAmounts(txns_30d), Cardinality(txns_30d))
             mx == IF txns_30d = {} THEN 0 ELSE MaxAmount(txns_30d)
             c1h == Cardinality({r \in mine : r.age <= 60})
             c5 == Cardinality({r \in mine : r.age <= 5})
             failed == Cardinality({r \in mine : r.age <= 7 * MinutesPerDay
                                                 /\ r.status = "FAILED"})
             last_age == CHOOSE a \in {r.age : r \in mine} :
                             \A r \in mine : a <= r.age
             days == IF mine = {} THEN 999 ELSE last_age \div MinutesPerDay
         IN  StatsDict(avg, mx, Cardinality(txns_30d), c1h, c5, failed, days,
                       users[uid][1].tenure_days)

\* a receiver reputation dict; fields of keys not in keys are fillers
ReceiverInfo(keys, total, fraud_count, ratio, score, is_new, risky, good) ==
    [keys |-> keys, total_transactions |-> total, fraud_count |-> fraud_count,
     fraud_ratio |-> ratio, reputation_score |-> score, is_new |-> is_new,
     risky_history |-> risky, good_history |-> good]

EmptyDict == ReceiverInfo({}, 0, 0, Frac(0, 1), Frac(0, 1), FALSE, FALSE, FALSE)

\* lines 226-244: the dict built from the table row, or for no row
reputation_data(row) ==
    IF row # None
    THEN LET rep == row[1]
             ratio == Frac(rep.fraud_count, Max(rep.total_transactions, 1))
         IN  ReceiverInfo({"receiver", "total_transactions", "fraud_count",
                           "fraud_ratio", "reputation_score", "last_updated"},
                          rep.total_transactions, rep.fraud_count, ratio,
                          FracMin(ratio, Frac(1, 1)), FALSE, FALSE, FALSE)
    ELSE ReceiverInfo({"receiver", "total_transactions", "fraud_count",
                       "fraud_ratio", "reputation_score", "is_new"},
                      0, 0, Frac(0, 1), Frac(50, 100), TRUE, FALSE, FALSE)

\* the dict returned, cache first
get_receiver_reputation(receiver, reputation, cache) ==
    IF cache[receiver] # None THEN cache[receiver][1]
    ELSE reputation_data(reputation[receiver])

\* lines 65-73; email, full_name and created_at are carried by no decision
user_profile_of(uid, row) ==
    [user_id |-> uid, trust_score |-> row.trust_score,
     risk_tier |-> row.risk_tier, known_devices |-> row.known_devices]

UserContext(user_profile, txn_stats, receiver_info) ==
    [user_profile |-> user_profile, txn_stats |-> txn_stats,
     receiver_info |-> IF receiver_info = None THEN EmptyDict
                       ELSE receiver_info[1]]

\* get_user_context (lines 27-94) as a function of what it reads: the outcome
\* and the cache it leaves.  rows is what the session's queries see; stats_ok
\* is false when a query of calculate_user_stats raises, and nothing in
\* either function catches that.
get_user_context(uid, receiver, users, reputation, rows, cprofile, crep, stats_ok) ==
    LET cached_profile == cprofile[uid]
    IN  IF cached_profile = None /\ users[uid] = None
        THEN [raised |-> TRUE, error |-> "ValueError", context |-> None,
              cache_profile |-> cprofile, cache_reputation |-> crep]
        ELSE LET user_profile ==
                     IF cached_profile # None THEN cached_profile[1]
                     ELSE user_profile_of(uid, users[uid][1])
                 cprofile1 ==
                     IF cached_profile # None THEN cprofile
                     ELSE [cprofile EXCEPT ![uid] = Some(user_profile)]
                 receiver_info ==
                     IF receiver # ""
                     THEN Some(get_receiver_reputation(receiver, reputation, crep))
                     ELSE None
                 crep1 ==
                     IF receiver # "" /\ crep[receiver] = None
                     THEN [crep EXCEPT ![receiver] = receiver_info]
                     ELSE crep
             IN  IF ~stats_ok
                 THEN [raised |-> TRUE, error |-> "OperationalError",
                       context |-> None,
                       cache_profile |-> cprofile1, cache_reputation |-> crep]
                 ELSE [raised |-> FALSE, error |-> "",
                       context |-> Some(UserContext(user_profile,
                                           calculate_user_stats(uid, users, rows),
                                           receiver_info)),
                       cache_profile |-> cprofile1, cache_reputation |-> crep1]

\* ---------------------------------------------------------------------
\* Inputs
\* ---------------------------------------------------------------------
\* largest txn_count_5min drawn for a context
MaxCount5min == 5
\* number of values of failed_txn_count_7d drawn, from 0 in steps of 3
MaxFailedSteps == 2

DeviceSet == {"", "d1", "d9"}
KnownDevices == {"d1"}

Profile0 ==
    [user_id |-> "u1", trust_score |-> 50, risk_tier |-> "BRONZE",
     known_devices |-> KnownDevices]

\* receiver_info dicts: none, the two shapes get_receiver_reputation builds,
\* and dicts carrying the history keys engineer_features reads
KnownInfo(total, fraud_count) ==
    reputation_data(Some([total_transactions |-> total, fraud_count |-> fraud_count]))

NewInfo == reputation_data(None)

ReceiverInfoSet ==
    {EmptyDict, NewInfo,
     KnownInfo(20, 0), KnownInfo(20, 16), KnownInfo(10, 7), KnownInfo(9, 9),
     KnownInfo(20, 14),
     [KnownInfo(20, 0) EXCEPT !.keys = @ \cup {"good_history"}, !.good_history = TRUE],
     [KnownInfo(5, 1) EXCEPT !.keys = @ \cup {"risky_history"}, !.risky_history = TRUE],
     [NewInfo EXCEPT !.keys = @ \cup {"good_history"}, !.good_history = TRUE]}

AvgSet == {Frac(0, 1), Frac(1000, 1), Frac(50000, 1)}

RulesStatsSet ==
    {StatsDict(avg, mx, 0, c1h, c5, 3 * f, days, 30) :
        avg \in AvgSet, mx \in {0, 2000}, c1h \in {0, 10, 15},
        c5 \in 0..MaxCount5min, f \in 0..MaxFailedSteps, days \in {0, 7, 8, 999}}

RulesTxnSet ==
    {[amount |-> a, receiver |-> "shop@upi", device_id |-> d] :
        a \in {100, 3001, 5001}, d \in DeviceSet}

\* the variables of a run that has not started
RunIdle ==
    /\ user_id = "u1"
    /\ save = FALSE
    /\ rule_result = None
    /\ ml_result = None
    /\ fused = None
    /\ action_result = None
    /\ response = None
    /\ exception = None
    /\ calls = <<>>
    /\ new_txn = None
    /\ runs = 0

StoreEmpty ==
    /\ db_users = [u \in {"u1"} |-> None]
    /\ db_reputation = [r \in {"shop@upi"} |-> None]
    /\ db_txns = {}
    /\ db_events = {}
    /\ cache_profile = [u \in {"u1"} |-> None]
    /\ cache_reputation = [r \in {"shop@upi"} |-> None]
    /\ db_history = {}
    /\ payments = <<>>
    /\ faults = {}
    /\ workers = <<>>

NoModel ==
    /\ model = "None"
    /\ model_available = FALSE

\* ---------------------------------------------------------------------
\* SpecRules: evaluate applied to a drawn intent and context
\* ---------------------------------------------------------------------
InitRules ==
    /\ pc = "rules_ready"
    /\ txn_data \in RulesTxnSet
    /\ context \in {Some(UserContext(Profile0, st, Some(ri))) :
                       st \in RulesStatsSet, ri \in ReceiverInfoSet}
    /\ RunIdle
    /\ StoreEmpty
    /\ NoModel

ApplyEvaluate ==
    /\ pc = "rules_ready"
    /\ rule_result' = Some(evaluate(txn_data, context[1]))
    /\ calls' = Append(calls, "rules")
    /\ pc' = "rules_done"
    /\ UNCHANGED <<db_history, payments, faults, workers,
                   txn_data, user_id, save, context, ml_result, fused,
                   action_result, response, exception, new_txn, runs, model,
                   model_available, db_users, db_reputation, db_txns,
                   db_events, cache_profile, cache_reputation>>

NextRules == ApplyEvaluate

SpecRules == InitRules /\ [][NextRules]_vars

\* C9: a context with days_since_last_txn > 7 and txn_count_5min >= 3 whose
\* payee is not blacklisted gets the flag VELOCITY_SPIKE, and the velocity
\* contribution is at least 0.50 (so rule_score is at least 0.50 too).
C9_DormantBurst ==
    (/\ pc = "rules_done"
     /\ context[1].txn_stats.days_since_last_txn > 7
     /\ context[1].txn_stats.txn_count_5min >= 3
     /\ ~rule_result[1].hard_block)
    => /\ "VELOCITY_SPIKE" \in SeqToSet(rule_result[1].flags)
       /\ "velocity" \in rule_result[1].rule_breakdown.keys
       /\ rule_result[1].rule_breakdown.velocity >= 50
       /\ rule_result[1].rule_score >= 50

\* a user idle 8 days with exactly 3 transactions in 5 minutes, payee clean
C9_Witness ==
    /\ pc = "rules_done"
    /\ context[1].txn_stats.days_since_last_txn = 8
    /\ context[1].txn_stats.txn_count_5min = 3
    /\ context[1].txn_stats.txn_count_1hour = 0
    /\ ~rule_result[1].hard_block
    /\ rule_result[1].rule_breakdown.velocity = 50

\* ---------------------------------------------------------------------
\* SpecML: load_model at import, then predict on a drawn intent and context
\* ---------------------------------------------------------------------
\* what the import of catboost, the file test and the load do
LoadOutcomes == {"ImportError", "missing", "load_error", "loaded"}

\* what model.predict_proba does on a call: the fraud-class probability of a
\* classifier, in hundredths, or an exception
InferenceOutcomes ==
    {[raises |-> TRUE, proba |-> 0]}
    \cup {[raises |-> FALSE, proba |-> p] : p \in {0, 37, 100}}

MLStatsSet ==
    {StatsDict(avg, 0, 0, c1h, 0, 0, 0, 30) : avg \in AvgSet, c1h \in {0, 5, 6}}

MLTxnSet ==
    {[amount |-> a, receiver |-> "shop@upi", device_id |-> d] :
        a \in {100, 5001, 10001}, d \in DeviceSet}

InitML ==
    /\ pc = "import"
    /\ txn_data \in MLTxnSet
    /\ context \in {Some(UserContext(Profile0, st, Some(ri))) :
                       st \in MLStatsSet, ri \in ReceiverInfoSet}
    /\ RunIdle
    /\ StoreEmpty
    /\ NoModel

\* a load_model that sets the flag before the load that may fail
load_model_flag_first(mdl, outcome) ==
    [model |-> IF outcome \in {"load_error", "loaded"}
               THEN "CatBoostClassifier" ELSE mdl,
     model_available |-> (outcome \in {"load_error", "loaded"})]

\* the globals load_model leaves: model is assigned before the load that
\* may fail, model_available only after it
load_model(mdl, outcome) ==
    [model |-> IF outcome \in {"load_error", "loaded"}
               THEN "CatBoostClassifier" ELSE mdl,
     model_available |-> (outcome = "loaded")]

\* load_model, called once when the module is imported (lines 252-256); a
\* load that gives no model is remembered in faults
LoadModel ==
    /\ pc = "import"
    /\ \E outcome \in LoadOutcomes :
          /\ model' = load_model(model, outcome).model
          /\ model_available' = load_model(model, outcome).model_available
          /\ faults' = IF outcome = "loaded" THEN faults
                       ELSE faults \cup {<<outcome, 0>>}
    /\ pc' = "ml_ready"
    /\ UNCHANGED <<db_history, payments, workers,
                   txn_data, user_id, save, context, rule_result, ml_result,
                   fused, action_result, response, exception, calls, new_txn,
                   runs, db_users, db_reputation, db_txns, db_events,
                   cache_profile, cache_reputation>>

\* number of predict calls of the process in a behaviour
MaxPredicts == 3

\* the classifier was called (line 76 holds) and predict_proba raised
inference_raised(mdl, available, outcome) ==
    available /\ mdl # "None" /\ outcome.raises

\* predict with a handler that gives up on the model after a failed inference
ApplyPredict_giving_up ==
    /\ pc \in {"ml_ready", "ml_done"}
    /\ Len(calls) < MaxPredicts
    /\ \E outcome \in InferenceOutcomes :
          /\ ml_result' = Some(predict(txn_data, context[1], model,
                                       model_available, outcome))
          /\ model_available' = (model_available /\ ~outcome.raises)
          /\ faults' = IF inference_raised(model, model_available, outcome)
                       THEN faults \cup {<<"inference", Len(calls) + 1>>}
                       ELSE faults
    /\ calls' = Append(calls, "ml")
    /\ pc' = "ml_done"
    /\ UNCHANGED <<db_history, payments, workers,
                   txn_data, user_id, save, context, rule_result, fused,
                   action_result, response, exception, new_txn, runs, model,
                   db_users, db_reputation, db_txns,
                   db_events, cache_profile, cache_reputation>>

\* one call of predict (lines 61-118): it reads model and model_available
\* and assigns neither
ApplyPredict ==
    /\ pc \in {"ml_ready", "ml_done"}
    /\ Len(calls) < MaxPredicts
    /\ \E outcome \in InferenceOutcomes :
          /\ ml_result' = Some(predict(txn_data, context[1], model,
                                       model_available, outcome))
          /\ faults' = IF inference_raised(model, model_available, outcome)
                       THEN faults \cup {<<"inference", Len(calls) + 1>>}
                       ELSE faults
    /\ calls' = Append(calls, "ml")
    /\ pc' = "ml_done"
    /\ UNCHANGED <<db_history, payments, workers,
                   txn_data, user_id, save, context, rule_result, fused,
                   action_result, response, exception, new_txn, runs, model,
                   model_available, db_users, db_reputation, db_txns,
                   db_events, cache_profile, cache_reputation>>

NextML == LoadModel \/ ApplyPredict

SpecML == InitML /\ [][NextML]_vars

\* C10: whichever strategy is active, predict returns a result (no exception
\* leaves it) whose ml_score lies in [0, 1].
C10_ScoreInRange ==
    pc = "ml_done"
    => /\ ml_result # None
       /\ exception = None
       /\ ml_result[1].ml_score >= 0
       /\ ml_result[1].ml_score <= ScoreOne

\* the heuristic strategy on a feature map whose weights add up to more than
\* 1.0, and the trained strategy falling back after an inference exception
C10_Witness ==
    /\ pc = "ml_done"
    /\ ml_result[1].model_version \in {"rule-fallback", "v1.1-fallback"}
    /\ fallback_sum(ml_result[1].features) > ScoreOne
    /\ ml_result[1].ml_score = ScoreOne

\* a predict call: the step that adds a call to the trace
PredictCall == Len(calls') = Len(calls) + 1

\* C11: when a trained model is loaded and its inference raises during a
\* predict call, the call returns the heuristic score of the same features
\* under the fallback version tag, no exception leaves it and the globals
\* that select the strategy are unchanged; the call after a failed one
\* invokes the trained model again.
C11_PerCallFallback ==
    [][PredictCall =>
         /\ (<<"inference", Len(calls')>> \in faults' =>
                /\ ml_result'[1].model_version = "v1.1-fallback"
                /\ ml_result'[1].features = engineer_features(txn_data, context[1])
                /\ ml_result'[1].ml_score =
                       calculate_fallback_score(ml_result'[1].features)
                /\ exception' = None
                /\ model' = model
                /\ model_available' = model_available)
         /\ (<<"inference", Len(calls)>> \in faults =>
                ml_result'[1].model_version \in {"v1.1", "v1.1-fallback"})]_vars

\* the first call failed in the classifier and fell back, the second call
\* got its score from the classifier
C11_Witness ==
    /\ pc = "ml_done"
    /\ Len(calls) = 2
    /\ <<"inference", 1>> \in faults
    /\ <<"inference", 2>> \notin faults
    /\ ml_result[1].model_version = "v1.1"
    /\ ml_result[1].ml_score = 37

\* the load at import gave no model
LoadFailed ==
    \E o \in {"ImportError", "missing", "load_error"} : <<o, 0>> \in faults

\* C12: if load_model finds no model at import (file missing, catboost not
\* installed, load error), model_available is false in every later state and
\* every predict call scores with the heuristic; no predict call changes
\* model or model_available.
C12_PermanentFallback ==
    [][/\ (LoadFailed' =>
             /\ ~model_available'
             /\ (pc' = "ml_done" =>
                    /\ ml_result'[1].model_version = "rule-fallback"
                    /\ ml_result'[1].ml_score =
                           calculate_fallback_score(ml_result'[1].features)))
       /\ (PredictCall =>
             /\ model' = model
             /\ model_available' = model_available)]_vars

\* a load that failed after the classifier object was made, then two calls
\* scored by the heuristic
C12_Witness ==
    /\ pc = "ml_done"
    /\ Len(calls) >= 2
    /\ <<"load_error", 0>> \in faults
    /\ model = "CatBoostClassifier"
    /\ ~model_available
    /\ ml_result[1].model_version = "rule-fallback"

\* ---------------------------------------------------------------------
\* risk_orchestrator.py: the responses
\* ---------------------------------------------------------------------
\* round(final_score, 2) in hundredths (ties, which binary floats all but
\* never hit, go up here)
Round2(final_score) == (final_score + 5000) \div 10000

\* The decision fields of the dict _build_response returns (lines 319-331);
\* the breakdown, the texts and the echo of the inputs are left out.
build_response(tid, final_score, action) ==
    [keys |-> {"transaction_id", "risk_score", "risk_level", "risk_percentage",
               "action", "can_proceed", "requires_otp"},
     transaction_id |-> tid,
     risk_score |-> Round2(final_score),
     risk_level |-> action.risk_level,
     risk_percentage |-> final_score \div 10000,
     action |-> action.action,
     can_proceed |-> action.action \in {"ALLOW", "WARNING"},
     requires_otp |-> action.requires_otp]

\* a blocked response that carries the number of the run in a second field
create_blocked_response_numbered(tid) ==
    [keys |-> {"transaction_id", "risk_score", "risk_level", "risk_percentage",
               "can_proceed", "requires_otp"},
     transaction_id |-> tid,
     risk_score |-> ScoreOne,
     risk_level |-> "VERY_HIGH",
     risk_percentage |-> 100 - tid,
     action |-> "",
     can_proceed |-> FALSE,
     requires_otp |-> FALSE]

\* The decision fields of the dict _create_blocked_response returns (lines
\* 428-465).  The dict has no key "action"; the field is a filler.
create_blocked_response(tid) ==
    [keys |-> {"transaction_id", "risk_score", "risk_level", "risk_percentage",
               "can_proceed", "requires_otp"},
     transaction_id |-> tid,
     risk_score |-> ScoreOne,
     risk_level |-> "VERY_HIGH",
     risk_percentage |-> 100,
     action |-> "",
     can_proceed |-> FALSE,
     requires_otp |-> FALSE]

\* ---------------------------------------------------------------------
\* SpecFuse: _combine_scores applied to drawn scores, intent and context
\* ---------------------------------------------------------------------
ScoreSet == {0, 15, 45, 60, 80, 100}

FuseTxnSet ==
    {[amount |-> a, receiver |-> "shop@upi", device_id |-> "d1"] :
        a \in {0, 100, 250, 251, 1000, 3003, 11000}}

FuseContextSet ==
    {UserContext(Profile0, StatsDict(avg, 0, 0, 0, 0, 0, 0, 30), Some(ri)) :
        avg \in AvgSet \cup {Frac(4999, 1)},
        ri \in {EmptyDict, NewInfo, KnownInfo(20, 0)}}

FlagSeqSet ==
    {<<>>, <<"VELOCITY_SPIKE">>, <<"DEVICE_CHANGE">>, <<"NEW_DEVICE">>,
     <<"VELOCITY_SPIKE", "IMPOSSIBLE_TRAVEL">>}

InitFuse ==
    /\ pc = "fuse_ready"
    /\ txn_data \in FuseTxnSet
    /\ context \in {Some(c) : c \in FuseContextSet}
    /\ rule_result \in {Some([RuleResult0 EXCEPT !.rule_score = r, !.flags = f]) :
                           r \in ScoreSet, f \in {<<>>, <<"VELOCITY_SPIKE">>}}
    /\ \E m \in ScoreSet :
          ml_result = Some(MLResult(m, engineer_features(txn_data, context[1]),
                                    "rule-fallback"))
    /\ user_id = "u1"
    /\ save = FALSE
    /\ fused = None
    /\ action_result = None
    /\ response = None
    /\ exception = None
    /\ calls = <<>>
    /\ new_txn = None
    /\ runs = 0
    /\ StoreEmpty
    /\ NoModel

ApplyCombine ==
    /\ pc = "fuse_ready"
    /\ fused' = Some(combine_scores(rule_result[1].rule_score,
                                    ml_result[1].ml_score,
                                    rule_result[1].flags, context[1], txn_data))
    /\ calls' = Append(calls, "fuse")
    /\ pc' = "fuse_done"
    /\ UNCHANGED <<db_history, payments, faults, workers,
                   txn_data, user_id, save, context, rule_result, ml_result,
                   action_result, response, exception, new_txn, runs, model,
                   model_available, db_users, db_reputation, db_txns,
                   db_events, cache_profile, cache_reputation>>

NextFuse == ApplyCombine

SpecFuse == InitFuse /\ [][NextFuse]_vars

\* C3: for scores in [0, 1], avg_amount_30d >= 0 and amount >= 0,
\* _combine_scores returns a fused score f with 0 <= f <= 1.
C3_FusedInRange ==
    pc = "fuse_done"
    => /\ ~fused[1].raised
       /\ fused[1].value >= 0
       /\ fused[1].value <= FusedOne

\* C4: with the amount, the average and the payee fixed, _combine_scores
\* returns a fused score that does not fall when rule_score or model_score
\* rises.
C4_Monotonic ==
    pc = "fuse_done"
    => \A r2 \in ScoreSet, m2 \in ScoreSet :
          (r2 >= rule_result[1].rule_score /\ m2 >= ml_result[1].ml_score)
          => LET hi == combine_scores(r2, m2, rule_result[1].flags,
                                      context[1], txn_data)
             IN  /\ ~fused[1].raised
                 /\ ~hi.raised
                 /\ fused[1].value <= hi.value

\* C8: for a first-time payee and amount <= min(250, 5% of (avg_30d + 1)),
\* _combine_scores returns a fused score of at most 0.45.
C8_ForgivenessCap ==
    (/\ pc = "fuse_done"
     /\ DictGet(context[1].receiver_info, "is_new", TRUE)
     /\ txn_data.amount <= 250
     /\ 20 * txn_data.amount * context[1].txn_stats.avg_amount_30d.d
            <= context[1].txn_stats.avg_amount_30d.n
               + context[1].txn_stats.avg_amount_30d.d)
    => /\ ~fused[1].raised
       /\ fused[1].value <= 450000

\* ---------------------------------------------------------------------
\* SpecPolicy: STEP 5 and STEP 6 of analyze_transaction (lines 145-212) with
\* save = False, on a drawn rule result, context and fused score
\* ---------------------------------------------------------------------
FinalScoreSet ==
    {0, 400000, 599999, 600000, 700000, 799999, 800000, 850000, 1000000}

\* txn_stats without, and with, the key impossible_travel_flag
PolicyStatsSet ==
    LET st == StatsDict(Frac(1000, 1), 0, 0, 0, 0, 0, 0, 30)
    IN  {st}
        \cup {[st EXCEPT !.keys = @ \cup {"impossible_travel_flag"},
                         !.impossible_travel_flag = b] : b \in BOOLEAN}

InitPolicy ==
    /\ pc = "action_ready"
    /\ txn_data = [amount |-> 1000, receiver |-> "shop@upi", device_id |-> "d1"]
    /\ context \in {Some(UserContext(Profile0, st, Some(KnownInfo(20, 0)))) :
                       st \in PolicyStatsSet}
    /\ rule_result \in {Some([RuleResult0 EXCEPT !.flags = f]) : f \in FlagSeqSet}
    /\ ml_result = Some(MLResult(0, engineer_features(txn_data, context[1]),
                                 "rule-fallback"))
    /\ fused \in {Some(Returned(v)) : v \in FinalScoreSet}
    /\ user_id = "u1"
    /\ save = FALSE
    /\ action_result = None
    /\ response = None
    /\ exception = None
    /\ calls = <<>>
    /\ new_txn = None
    /\ runs = 1
    /\ StoreEmpty
    /\ NoModel

\* get_action of decision_engine: the baseline action for the score.  Its
\* mapping is not fixed here: it may return any action record.
GetAction ==
    /\ pc = "action_ready"
    /\ \E a \in Actions, l \in RiskLevels, otp \in BOOLEAN :
          action_result' = Some([action |-> a, risk_level |-> l,
                                 requires_otp |-> otp])
    /\ calls' = Append(calls, "action")
    /\ pc' = "policy"
    /\ UNCHANGED <<db_history, payments, faults, workers,
                   txn_data, user_id, save, context, rule_result, ml_result,
                   fused, response, exception, new_txn, runs, model,
                   model_available, db_users, db_reputation, db_txns,
                   db_events, cache_profile, cache_reputation>>

\* lines 157-190
ApplyPolicy ==
    /\ pc = "policy"
    /\ action_result' =
           Some(apply_policy(action_result[1], fused[1].value,
                             identity_risk(rule_result[1].flags, context[1])))
    /\ pc' = "respond"
    /\ UNCHANGED <<db_history, payments, faults, workers,
                   txn_data, user_id, save, context, rule_result, ml_result,
                   fused, response, exception, calls, new_txn, runs, model,
                   model_available, db_users, db_reputation, db_txns,
                   db_events, cache_profile, cache_reputation>>

\* lines 192-230 with save = False: nothing is written, the response is built
\* and returned
BuildResponse ==
    /\ pc = "respond"
    /\ ~save
    /\ response' = Some(build_response(runs, fused[1].value, action_result[1]))
    /\ pc' = "done"
    /\ UNCHANGED <<db_history, payments, faults, workers,
                   txn_data, user_id, save, context, rule_result, ml_result,
                   fused, action_result, exception, calls, new_txn, runs,
                   model, model_available, db_users, db_reputation, db_txns,
                   db_events, cache_profile, cache_reputation>>

NextPolicy == GetAction \/ ApplyPolicy \/ BuildResponse

SpecPolicy == InitPolicy /\ [][NextPolicy]_vars

\* identity_risk as the claims word it, on the state
HasIdentityRisk ==
    \/ \E i \in 1..Len(rule_result[1].flags) :
          rule_result[1].flags[i] \in {"IMPOSSIBLE_TRAVEL", "NEW_DEVICE"}
    \/ /\ "impossible_travel_flag" \in context[1].txn_stats.keys
       /\ context[1].txn_stats.impossible_travel_flag

Decided == pc = "done" /\ response # None /\ "action" \in response[1].keys

MaxRuns == 2

UserIds == {"u1", "ghost"}
ReceiverInputs == {"", "shop@upi", "Mule@UPI ", "new@upi"}
Receivers == {"shop@upi", "mule@upi", "new@upi"}

\* str(receiver).lower().strip() on the receivers drawn
Normalize(r) == IF r = "Mule@UPI " THEN "mule@upi" ELSE r

UserRow0 ==
    [trust_score |-> 50, risk_tier |-> "BRONZE", known_devices |-> KnownDevices,
     tenure_days |-> 30]

Row(tid, status, age, amount) ==
    [tid |-> tid, user |-> "u1", status |-> status, age |-> age, amount |-> amount]

\* transaction histories of u1: none; one payment three days ago; an older
\* payment and three failures; a burst of three within the last minutes
HistorySet ==
    {{},
     {Row(101, "COMPLETED", 3 * MinutesPerDay, 1000)},
     {Row(101, "COMPLETED", 10 * MinutesPerDay, 500),
      Row(102, "FAILED", 3 * MinutesPerDay, 500),
      Row(103, "FAILED", 3 * MinutesPerDay, 700),
      Row(104, "FAILED", 2 * MinutesPerDay, 900)},
     {Row(101, "COMPLETED", 10 * MinutesPerDay, 1000),
      Row(102, "PENDING", 3, 200), Row(103, "PENDING", 2, 200),
      Row(104, "PENDING", 1, 200)}}

RepRow(total, fraud_count) ==
    [total_transactions |-> total, fraud_count |-> fraud_count]

ReputationSet ==
    {[r \in Receivers |->
         IF r = "shop@upi" THEN Some(RepRow(20, 0))
         ELSE IF r = "mule@upi" THEN Some(m)
         ELSE None] : m \in {RepRow(20, 16), RepRow(10, 7), RepRow(9, 9)}}

RunReset ==
    /\ context' = None
    /\ rule_result' = None
    /\ ml_result' = None
    /\ fused' = None
    /\ action_result' = None
    /\ response' = None
    /\ calls' = <<>>

Init ==
    /\ pc = "idle"
    /\ txn_data = [amount |-> 0, receiver |-> "", device_id |-> ""]
    /\ user_id = "u1"
    /\ save = FALSE
    /\ context = None
    /\ rule_result = None
    /\ ml_result = None
    /\ fused = None
    /\ action_result = None
    /\ response = None
    /\ exception = None
    /\ calls = <<>>
    /\ new_txn = None
    /\ runs = 0
    /\ \E outcome \in LoadOutcomes :
          /\ model = load_model("None", outcome).model
          /\ model_available = load_model("None", outcome).model_available
    /\ db_users = [u \in UserIds |-> IF u = "u1" THEN Some(UserRow0) ELSE None]
    /\ db_reputation \in ReputationSet
    /\ db_txns \in HistorySet
    /\ db_events = {}
    /\ cache_profile = [u \in UserIds |-> None]
    /\ cache_reputation = [r \in Receivers |-> None]
    /\ db_history = {}
    /\ payments = <<>>
    /\ faults = {}
    /\ workers = <<>>

\* Whether a query of the session first flushes the rows added to it.  The
\* session factory is not among the files; the run is specified as context
\* fetch, rules, scoring, fusion, resolution and only then persistence, so
\* the session of the model does not flush before its commit.
SessionAutoflush == {FALSE}

\* the rows the queries of a run see, with the row the run added at line 85
\* made visible to them whether or not the session flushes
visible_rows_pending_seen(rows, pending, autoflush) ==
    IF pending # None THEN rows \cup {pending[1]} ELSE rows

\* the rows the queries of a run see (lines 85 and 91: the pending row is
\* in the session the queries run on)
visible_rows(rows, pending, autoflush) ==
    IF autoflush /\ pending # None THEN rows \cup {pending[1]} ELSE rows

\* lines 53-86: the call, the user lookup and, with save, the PENDING row
\* added to the session
StartRun ==
    /\ pc = "idle"
    /\ runs < MaxRuns
    /\ \E uid \in UserIds, sv \in BOOLEAN, a \in {100, 5001},
          rcv \in ReceiverInputs, dev \in {"d1", "d9"} :
          /\ user_id' = uid
          /\ save' = sv
          /\ txn_data' = [amount |-> a, receiver |-> rcv, device_id |-> dev]
          /\ runs' = runs + 1
          /\ RunReset
          /\ IF db_users[uid] = None
             THEN /\ exception' = Some("ValueError")
                  /\ new_txn' = None
                  /\ pc' = "error"
             ELSE /\ exception' = None
                  /\ new_txn' = IF sv THEN Some(Row(runs + 1, "PENDING", 0, a))
                                ELSE None
                  /\ pc' = "gather"
    /\ UNCHANGED <<db_history, payments, faults, workers,
                   model, model_available, db_users, db_reputation, db_txns,
                   db_events, cache_profile, cache_reputation>>

\* STEP 1 (line 91), get_user_context, on the rows the session shows to its
\* queries.  An exception of get_user_context leaves analyze_transaction
\* through its finally.
GatherContext ==
    /\ pc = "gather"
    /\ \E autoflush \in SessionAutoflush, stats_ok \in BOOLEAN :
          LET receiver == Normalize(txn_data.receiver)
              visible == visible_rows(db_txns, new_txn, autoflush)
              out == get_user_context(user_id, receiver, db_users,
                                      db_reputation, visible, cache_profile,
                                      cache_reputation, stats_ok)
          IN  /\ context' = out.context
              /\ cache_profile' = out.cache_profile
              /\ cache_reputation' = out.cache_reputation
              /\ exception' = IF out.raised THEN Some(out.error) ELSE exception
              /\ faults' = IF stats_ok THEN faults
                           ELSE faults \cup {<<"stats", runs>>}
              /\ pc' = IF out.raised THEN "error" ELSE "rules"
    /\ UNCHANGED <<db_history, payments, workers,
                   txn_data, user_id, save, rule_result, ml_result, fused,
                   action_result, response, calls, new_txn, runs, model,
                   model_available, db_users, db_reputation, db_txns, db_events>>

\* STEP 2 (line 97)
EvaluateRules ==
    /\ pc = "rules"
    /\ rule_result' = Some(evaluate(txn_data, context[1]))
    /\ calls' = Append(calls, "rules")
    /\ pc' = IF evaluate(txn_data, context[1]).hard_block
             THEN "hard_block" ELSE "predict"
    /\ UNCHANGED <<db_history, payments, faults, workers,
                   txn_data, user_id, save, context, ml_result, fused,
                   action_result, response, exception, new_txn, runs, model,
                   model_available, db_users, db_reputation, db_txns,
                   db_events, cache_profile, cache_reputation>>

\* a row of risk_events (_log_risk_event, lines 623-631) for a hard block
BlockEvent(uid, tid) ==
    [user |-> uid, tid |-> tid, final_score |-> FusedOne, action |-> "BLOCK",
     rule_score |-> ScoreOne, ml_score |-> 0, flags |-> <<"HARD_BLOCK">>]

\* a hard block that records the risk event whatever the save option is
HardBlock_logs_always ==
    /\ pc = "hard_block"
    /\ db_events' = db_events \cup {BlockEvent(user_id, runs)}
    /\ response' = Some(create_blocked_response(runs))
    /\ pc' = "done"
    /\ UNCHANGED <<db_history, payments, workers, faults, new_txn, db_txns,
                   exception,
                   txn_data, user_id, save, context, rule_result, ml_result,
                   fused, action_result, calls, runs, model, model_available,
                   db_users, db_reputation, cache_profile, cache_reputation>>

\* lines 100-120 with _create_blocked_response: the row is marked BLOCKED and
\* committed, the risk event is logged (a failure there is rolled back and
\* swallowed, lines 641-643), the blocked response is returned.  The commit
\* of line 109 is in no try: when it fails the exception leaves the call.
HardBlock ==
    /\ pc = "hard_block"
    /\ \E commit_ok \in BOOLEAN, log_ok \in BOOLEAN :
          IF save /\ new_txn # None
          THEN IF commit_ok
               THEN /\ new_txn' = Some([new_txn[1] EXCEPT !.status = "BLOCKED"])
                    /\ db_txns' = db_txns \cup {[new_txn[1] EXCEPT !.status = "BLOCKED"]}
                    /\ db_events' = IF log_ok
                                    THEN db_events \cup {BlockEvent(user_id, new_txn[1].tid)}
                                    ELSE db_events
                    /\ faults' = IF log_ok THEN faults
                                 ELSE faults \cup {<<"log_event", runs>>}
                    /\ response' = Some(create_blocked_response(runs))
                    /\ pc' = "done"
                    /\ UNCHANGED exception
               ELSE /\ log_ok
                    /\ exception' = Some("SQLAlchemyError")
                    /\ faults' = faults \cup {<<"commit", runs>>}
                    /\ pc' = "error"
                    /\ UNCHANGED <<new_txn, db_txns, db_events, response>>
          ELSE /\ commit_ok /\ log_ok
               /\ response' = Some(create_blocked_response(runs))
               /\ pc' = "done"
               /\ UNCHANGED <<new_txn, db_txns, db_events, exception, faults>>
    /\ UNCHANGED <<db_history, payments, workers,
                   txn_data, user_id, save, context, rule_result, ml_result,
                   fused, action_result, calls, runs, model, model_available,
                   db_users, db_reputation, cache_profile, cache_reputation>>

\* STEP 3 (line 127)
Predict ==
    /\ pc = "predict"
    /\ \E outcome \in InferenceOutcomes :
          ml_result' = Some(predict(txn_data, context[1], model,
                                    model_available, outcome))
    /\ calls' = Append(calls, "ml")
    /\ pc' = "combine"
    /\ UNCHANGED <<db_history, payments, faults, workers,
                   txn_data, user_id, save, context, rule_result, fused,
                   action_result, response, exception, new_txn, runs, model,
                   model_available, db_users, db_reputation, db_txns,
                   db_events, cache_profile, cache_reputation>>

\* STEP 4 (lines 133-139): an exception of _combine_scores leaves
\* analyze_transaction through its finally; the pending row is never committed
CombineScores ==
    /\ pc = "combine"
    /\ LET out == combine_scores(rule_result[1].rule_score, ml_result[1].ml_score,
                                 rule_result[1].flags, context[1], txn_data)
       IN  /\ fused' = Some(out)
           /\ exception' = IF out.raised THEN Some(out.error) ELSE exception
           /\ pc' = IF out.raised THEN "error" ELSE "action_ready"
    /\ calls' = Append(calls, "fuse")
    /\ UNCHANGED <<db_history, payments, faults, workers,
                   txn_data, user_id, save, context, rule_result, ml_result,
                   action_result, response, new_txn, runs, model,
                   model_available, db_users, db_reputation, db_txns,
                   db_events, cache_profile, cache_reputation>>

\* the call has returned or raised; the worker takes the next request
EndRun ==
    /\ pc \in {"done", "error"}
    /\ pc' = "idle"
    /\ RunReset
    /\ exception' = None
    /\ new_txn' = None
    /\ UNCHANGED <<db_history, payments, faults, workers,
                   txn_data, user_id, save, runs, model, model_available,
                   db_users, db_reputation, db_txns, db_events, cache_profile,
                   cache_reputation>>

Next ==
    \/ StartRun
    \/ GatherContext
    \/ EvaluateRules
    \/ HardBlock
    \/ Predict
    \/ CombineScores
    \/ EndRun

Spec == Init /\ [][Next]_vars

\* the blacklist condition of the claims, on the payee reputation of the run
PayeeBlacklisted ==
    LET info == context[1].receiver_info
    IN  /\ info.keys # {}
        /\ info.total_transactions >= 10
        /\ \/ 100 * info.fraud_ratio.n > 70 * info.fraud_ratio.d
           \/ info.fraud_count >= 7

\* C1: a run whose payee has fraud_ratio > 0.70 with total_transactions >= 10
\* (or fraud_count >= 7 with total_transactions >= 10) returns a decision with
\* action BLOCK and risk score 1.0.
C1_BlacklistBlocks ==
    (pc = "done" /\ context # None /\ PayeeBlacklisted)
    => /\ response # None
       /\ "risk_score" \in response[1].keys
       /\ response[1].risk_score = ScoreOne
       /\ "action" \in response[1].keys
       /\ response[1].action = "BLOCK"

\* C2: a run with a hard block never invokes the scorer, the fuser or the
\* action resolver; any other run invokes rule evaluation, scoring, fusion
\* and action resolution once each in that order and ends with a decision.
C2_StagesInOrder ==
    (pc \in {"done", "error"} /\ rule_result # None)
    => IF rule_result[1].hard_block
       THEN calls = <<"rules">>
       ELSE /\ calls = <<"rules", "ml", "fuse", "action">>
            /\ pc = "done"
            /\ response # None

\* the run has ended, by a return or by an exception
RunEnded == pc \in {"done", "error"}

\* the decision the run computed before its writes
ComputedDecision ==
    IF rule_result[1].hard_block
    THEN Some(create_blocked_response(runs))
    ELSE IF fused # None /\ ~fused[1].raised /\ action_result # None
         THEN Some(build_response(runs, fused[1].value, action_result[1]))
         ELSE None

\* C14: in a run with save=True, a failure of a persistence write (the commit
\* of the transaction row or the record of the risk event) does not raise out
\* of analyze_transaction and the decision returned is the one that was
\* computed.
C14_WriteFailureSwallowed ==
    (RunEnded /\ save
       /\ (<<"commit", runs>> \in faults \/ <<"log_event", runs>> \in faults))
    => /\ exception = None
       /\ response # None
       /\ response = ComputedDecision

\* C16: every step of a run with save=False leaves the tables of the store
\* unchanged, whichever way the run ends; only cache entries may be written.
C16_ReadOnlyWithoutSave ==
    [][~save' =>
         /\ db_txns' = db_txns
         /\ db_events' = db_events
         /\ db_users' = db_users
         /\ db_reputation' = db_reputation
         /\ db_history' = db_history]_vars

\* a hard-blocked run without save has returned after an earlier run without
\* save ended in an exception: the caches are filled, the tables are as they
\* were at the start
C16_Witness ==
    /\ pc = "done"
    /\ ~save
    /\ runs = 2
    /\ rule_result[1].hard_block
    /\ response # None
    /\ cache_profile["u1"] # None
    /\ cache_reputation["mule@upi"] # None
    /\ db_events = {}
    /\ db_txns \in HistorySet

\* C19: when the transaction store fails while calculate_user_stats runs its
\* queries, the run does not abort: the context carries the default
\* statistics (counts zero, days_since_last_txn 999) and the run goes on.
C19_StatsDefaults ==
    (RunEnded /\ <<"stats", runs>> \in faults)
    => /\ context # None
       /\ context[1].txn_stats = StatsDict(Frac(0, 1), 0, 0, 0, 0, 0, 999, 0)
       /\ exception # Some("OperationalError")

\* ---------------------------------------------------------------------
\* SpecContext: calls of get_user_context while the store changes and cache
\* entries expire
\* ---------------------------------------------------------------------
\* number of get_user_context calls in a behaviour
MaxContextCalls == 3
\* number of times the trust score is raised in a behaviour
MaxTrustSteps == 1

ContextReceivers == {"", "mule@upi", "new@upi"}

NoProfiles == [u \in UserIds |-> None]
NoReputations == [r \in Receivers |-> None]

InitContext ==
    /\ pc = "ctx_idle"
    /\ txn_data = [amount |-> 0, receiver |-> "", device_id |-> ""]
    /\ context = None
    /\ RunIdle
    /\ NoModel
    /\ db_users = [u \in UserIds |-> IF u = "u1" THEN Some(UserRow0) ELSE None]
    /\ db_reputation \in ReputationSet
    /\ db_txns \in HistorySet
    /\ db_events = {}
    /\ cache_profile = NoProfiles
    /\ cache_reputation = NoReputations
    /\ db_history = {}
    /\ payments = <<>>
    /\ faults = {}
    /\ workers = <<>>

\* one call get_user_context(user_id, receiver, db)
GetUserContext ==
    /\ pc = "ctx_idle"
    /\ runs < MaxContextCalls
    /\ \E uid \in UserIds, rcv \in ContextReceivers, stats_ok \in BOOLEAN :
          LET out == get_user_context(uid, rcv, db_users, db_reputation,
                                      db_txns, cache_profile,
                                      cache_reputation, stats_ok)
          IN  /\ user_id' = uid
              /\ txn_data' = [txn_data EXCEPT !.receiver = rcv]
              /\ context' = out.context
              /\ exception' = IF out.raised THEN Some(out.error) ELSE None
              /\ cache_profile' = out.cache_profile
              /\ cache_reputation' = out.cache_reputation
              /\ faults' = IF stats_ok THEN faults
                           ELSE faults \cup {<<"stats", runs + 1>>}
    /\ runs' = runs + 1
    /\ pc' = "ctx_done"
    /\ UNCHANGED <<db_history, payments, workers, save, rule_result, ml_result,
                   fused, action_result, response, calls, new_txn, model,
                   model_available, db_users, db_reputation, db_txns, db_events>>

\* the caller has the outcome; the next call may come
ContextReturned ==
    /\ pc = "ctx_done"
    /\ pc' = "ctx_idle"
    /\ context' = None
    /\ exception' = None
    /\ UNCHANGED <<db_history, payments, faults, workers, txn_data, user_id,
                   save, rule_result, ml_result, fused, action_result,
                   response, calls, new_txn, runs, model, model_available,
                   db_users, db_reputation, db_txns, db_events, cache_profile,
                   cache_reputation>>

\* the profile entry of a user reaches its TTL (set_user_profile, line 76)
ProfileExpires ==
    /\ pc = "ctx_idle"
    /\ \E u \in UserIds :
          /\ cache_profile[u] # None
          /\ cache_profile' = [cache_profile EXCEPT ![u] = None]
    /\ UNCHANGED <<pc, db_history, payments, faults, workers, txn_data, user_id,
                   save, context, rule_result, ml_result, fused,
                   action_result, response, exception, calls, new_txn, runs,
                   model, model_available, db_users, db_reputation, db_txns,
                   db_events, cache_reputation>>

\* the reputation entry of a receiver reaches its TTL (ttl=600, line 247)
ReputationExpires ==
    /\ pc = "ctx_idle"
    /\ \E r \in Receivers :
          /\ cache_reputation[r] # None
          /\ cache_reputation' = [cache_reputation EXCEPT ![r] = None]
    /\ UNCHANGED <<pc, db_history, payments, faults, workers, txn_data, user_id,
                   save, context, rule_result, ml_result, fused,
                   action_result, response, exception, calls, new_txn, runs,
                   model, model_available, db_users, db_reputation, db_txns,
                   db_events, cache_profile>>

\* a row of the users table is deleted by a writer outside these files
UserRemoved ==
    /\ pc = "ctx_idle"
    /\ \E u \in UserIds :
          /\ db_users[u] # None
          /\ db_users' = [db_users EXCEPT ![u] = None]
    /\ UNCHANGED <<pc, db_history, payments, faults, workers, txn_data, user_id,
                   save, context, rule_result, ml_result, fused,
                   action_result, response, exception, calls, new_txn, runs,
                   model, model_available, db_reputation, db_txns, db_events,
                   cache_profile, cache_reputation>>

\* the receiver_reputation table is maintained outside these files: a row
\* appears or its counts change
ReputationChanged ==
    /\ pc = "ctx_idle"
    /\ \E r \in {"mule@upi", "new@upi"}, m \in {RepRow(9, 9), RepRow(20, 16)} :
          /\ db_reputation[r] # Some(m)
          /\ db_reputation' = [db_reputation EXCEPT ![r] = Some(m)]
    /\ UNCHANGED <<pc, db_history, payments, faults, workers, txn_data, user_id,
                   save, context, rule_result, ml_result, fused,
                   action_result, response, exception, calls, new_txn, runs,
                   model, model_available, db_users, db_txns, db_events,
                   cache_profile, cache_reputation>>

\* what a successful payment_confirm does to the profile (payment.py lines
\* 269 and 307-314): the trust score rises by 0.01, capped at 1.0, and the
\* cached profile is invalidated unless that call fails, which is swallowed
TrustScoreRaised ==
    /\ pc = "ctx_idle"
    /\ db_users["u1"] # None
    /\ db_users["u1"][1].trust_score < UserRow0.trust_score + MaxTrustSteps
    /\ db_users' = [db_users EXCEPT !["u1"] =
                        Some([@[1] EXCEPT !.trust_score = Min(ScoreOne, @ + 1)])]
    /\ \E invalidated \in BOOLEAN :
          cache_profile' = IF invalidated
                           THEN [cache_profile EXCEPT !["u1"] = None]
                           ELSE cache_profile
    /\ UNCHANGED <<pc, db_history, payments, faults, workers, txn_data, user_id,
                   save, context, rule_result, ml_result, fused,
                   action_result, response, exception, calls, new_txn, runs,
                   model, model_available, db_reputation, db_txns, db_events,
                   cache_reputation>>

NextContext ==
    \/ GetUserContext
    \/ ContextReturned
    \/ ProfileExpires
    \/ ReputationExpires
    \/ UserRemoved
    \/ ReputationChanged
    \/ TrustScoreRaised

SpecContext == InitContext /\ [][NextContext]_vars

\* C13: get_user_context fails with ValueError (the NotFound of the design)
\* and returns no context for every user id that has no row in the users
\* table, whatever the cache holds, a profile entry for that id included.
C13_UnknownUserFails ==
    (pc = "ctx_done" /\ db_users[user_id] = None
       /\ <<"stats", runs>> \notin faults)
    => /\ exception = Some("ValueError")
       /\ context = None

\* what the call returns from the same tables when the cache is empty
FreshContext ==
    get_user_context(user_id, txn_data.receiver, db_users, db_reputation,
                     db_txns, NoProfiles, NoReputations, TRUE)

\* C15: the context a call of get_user_context builds, and its failure with
\* ValueError, are those of the same call on the same tables with an empty
\* cache, for every cache state that calls, expiry and changes of the tables
\* lead to.
C15_CacheTransparent ==
    (pc = "ctx_done" /\ <<"stats", runs>> \notin faults)
    => /\ context = FreshContext.context
       /\ (exception # None) = FreshContext.raised

\* ---------------------------------------------------------------------
\* SpecPair: two runs of analyze_transaction on two workers, each with its
\* own session, over one store and one cache; their steps interleave
\* ---------------------------------------------------------------------
WorkerIds == {1, 2}
PairUsers == {"u1", "u2"}
PairInference == {[raises |-> TRUE, proba |-> 0], [raises |-> FALSE, proba |-> 37]}

\* the tables and the cache as a run finds them
Snapshot ==
    [db_users |-> db_users, db_reputation |-> db_reputation,
     db_txns |-> db_txns, db_events |-> db_events,
     cache_profile |-> cache_profile, cache_reputation |-> cache_reputation]

\* what the environment does to a run: session flush, inference, commit,
\* event record
Env0 == [autoflush |-> FALSE, inference |-> [raises |-> FALSE, proba |-> 37],
         commit_ok |-> TRUE, log_ok |-> TRUE]

Worker0 ==
    [pc |-> "idle", order |-> 0, uid |-> "u1",
     txn |-> [amount |-> 0, receiver |-> "", device_id |-> ""],
     save |-> FALSE, start |-> None, env |-> Env0, context |-> None,
     rule_result |-> None, ml_result |-> None, fused |-> None,
     response |-> None, exception |-> None, new_txn |-> None]

InitPair ==
    /\ pc = "pair"
    /\ txn_data = [amount |-> 0, receiver |-> "", device_id |-> ""]
    /\ context = None
    /\ RunIdle
    /\ \E outcome \in {"missing", "loaded"} :
          /\ model = load_model("None", outcome).model
          /\ model_available = load_model("None", outcome).model_available
    /\ db_users = [u \in PairUsers |-> Some(UserRow0)]
    /\ db_reputation \in ReputationSet
    /\ db_txns \in {{}, {Row(101, "COMPLETED", 3 * MinutesPerDay, 1000)}}
    /\ db_events = {}
    /\ cache_profile = [u \in PairUsers |-> None]
    /\ cache_reputation = NoReputations
    /\ db_history = {}
    /\ payments = <<>>
    /\ faults = {}
    /\ workers = [w \in WorkerIds |-> Worker0]

\* the variables of the single-run machine, which the workers do not use
PairFrame ==
    UNCHANGED <<pc, txn_data, user_id, save, context, rule_result, ml_result,
                fused, action_result, response, exception, calls, new_txn,
                runs, model, model_available, db_users, db_reputation,
                db_history, payments, faults>>

Started == {w \in WorkerIds : workers[w].pc # "idle"}

\* lines 53-86 on worker w: worker 1 runs for u1, worker 2 for u1 or u2
WStart(w) ==
    /\ workers[w].pc = "idle"
    /\ w = 1 \/ workers[1].pc # "idle"
    /\ \E uid \in IF w = 1 THEN {"u1"} ELSE PairUsers, sv \in BOOLEAN,
          rcv \in {"Mule@UPI ", "new@upi"} :
          workers' = [workers EXCEPT ![w] =
              [@ EXCEPT !.pc = IF db_users[uid] = None THEN "error" ELSE "gather",
                        !.order = Cardinality(Started) + 1,
                        !.uid = uid,
                        !.txn = [amount |-> 5001, receiver |-> rcv,
                                 device_id |-> "d9"],
                        !.save = sv,
                        !.start = Some(Snapshot),
                        !.exception = IF db_users[uid] = None
                                      THEN Some("ValueError") ELSE None,
                        !.new_txn = IF sv /\ db_users[uid] # None
                                    THEN Some([Row(w, "PENDING", 0, 5001)
                                                 EXCEPT !.user = uid])
                                    ELSE None]]
    /\ PairFrame
    /\ UNCHANGED <<db_txns, db_events, cache_profile, cache_reputation>>

\* STEP 1 on worker w
WGather(w) ==
    /\ workers[w].pc = "gather"
    /\ \E autoflush \in SessionAutoflush :
          LET me == workers[w]
              visible == visible_rows(db_txns, me.new_txn, autoflush)
              out == get_user_context(me.uid, Normalize(me.txn.receiver),
                                      db_users, db_reputation, visible,
                                      cache_profile, cache_reputation, TRUE)
          IN  /\ workers' = [workers EXCEPT ![w] =
                     [@ EXCEPT !.pc = IF out.raised THEN "error" ELSE "rules",
                               !.env = [@ EXCEPT !.autoflush = autoflush],
                               !.context = out.context,
                               !.exception = IF out.raised THEN Some(out.error)
                                             ELSE None]]
              /\ cache_profile' = out.cache_profile
              /\ cache_reputation' = out.cache_reputation
    /\ PairFrame
    /\ UNCHANGED <<db_txns, db_events>>

\* STEP 2 on worker w
WRules(w) ==
    /\ workers[w].pc = "rules"
    /\ LET me == workers[w]
           rr == evaluate(me.txn, me.context[1])
       IN  workers' = [workers EXCEPT ![w] =
               [@ EXCEPT !.pc = IF rr.hard_block THEN "hard_block" ELSE "predict",
                         !.rule_result = Some(rr)]]
    /\ PairFrame
    /\ UNCHANGED <<db_txns, db_events, cache_profile, cache_reputation>>

\* lines 100-120 on worker w
WHardBlock(w) ==
    /\ workers[w].pc = "hard_block"
    /\ \E commit_ok \in BOOLEAN, log_ok \in BOOLEAN :
          LET me == workers[w]
              blocked == [me.new_txn[1] EXCEPT !.status = "BLOCKED"]
          IN  IF me.save /\ me.new_txn # None
              THEN IF commit_ok
                   THEN /\ workers' = [workers EXCEPT ![w] =
                               [@ EXCEPT !.pc = "done",
                                         !.env = [@ EXCEPT !.log_ok = log_ok],
                                         !.new_txn = Some(blocked),
                                         !.response =
                                             Some(create_blocked_response(w))]]
                        /\ db_txns' = db_txns \cup {blocked}
                        /\ db_events' = IF log_ok
                                        THEN db_events \cup {BlockEvent(me.uid, w)}
                                        ELSE db_events
                   ELSE /\ log_ok
                        /\ workers' = [workers EXCEPT ![w] =
                               [@ EXCEPT !.pc = "error",
                                         !.env = [@ EXCEPT !.commit_ok = FALSE],
                                         !.exception = Some("SQLAlchemyError")]]
                        /\ UNCHANGED <<db_txns, db_events>>
              ELSE /\ commit_ok /\ log_ok
                   /\ workers' = [workers EXCEPT ![w] =
                          [@ EXCEPT !.pc = "done",
                                    !.response = Some(create_blocked_response(w))]]
                   /\ UNCHANGED <<db_txns, db_events>>
    /\ PairFrame
    /\ UNCHANGED <<cache_profile, cache_reputation>>

\* STEP 3 on worker w
WPredict(w) ==
    /\ workers[w].pc = "predict"
    /\ \E outcome \in PairInference :
          LET me == workers[w]
          IN  workers' = [workers EXCEPT ![w] =
                  [@ EXCEPT !.pc = "combine",
                            !.env = [@ EXCEPT !.inference = outcome],
                            !.ml_result = Some(predict(me.txn, me.context[1],
                                                       model, model_available,
                                                       outcome))]]
    /\ PairFrame
    /\ UNCHANGED <<db_txns, db_events, cache_profile, cache_reputation>>

\* STEP 4 on worker w
WCombine(w) ==
    /\ workers[w].pc = "combine"
    /\ LET me == workers[w]
           out == combine_scores(me.rule_result[1].rule_score,
                                 me.ml_result[1].ml_score,
                                 me.rule_result[1].flags, me.context[1], me.txn)
       IN  workers' = [workers EXCEPT ![w] =
               [@ EXCEPT !.pc = IF out.raised THEN "error" ELSE "action_ready",
                         !.fused = Some(out),
                         !.exception = IF out.raised THEN Some(out.error)
                                       ELSE None]]
    /\ PairFrame
    /\ UNCHANGED <<db_txns, db_events, cache_profile, cache_reputation>>

NextPair ==
    \/ \E w \in WorkerIds : WStart(w)
    \/ \E w \in WorkerIds : WGather(w)
    \/ \E w \in WorkerIds : WRules(w)
    \/ \E w \in WorkerIds : WHardBlock(w)
    \/ \E w \in WorkerIds : WPredict(w)
    \/ \E w \in WorkerIds : WCombine(w)

SpecPair == InitPair /\ [][NextPair]_vars

\* worker w has returned or raised
WEnded(w) == workers[w].pc \in {"done", "error"}

\* what the run on worker w came to
WOutcome(w) ==
    [context |-> workers[w].context, rule_result |-> workers[w].rule_result,
     response |-> workers[w].response, exception |-> workers[w].exception]

\* the tables and the cache before either run started
InitSnapshot ==
    workers[CHOOSE w \in Started : workers[w].order = 1].start[1]

\* what the run of worker w comes to when it is the only run and its save
\* option is sv, from the tables and cache snap, with the same behaviour of
\* its session, of the inference and of its commit
AloneWith(w, snap, sv) ==
    LET me == workers[w]
        pending == IF sv
                   THEN Some([Row(w, "PENDING", 0, me.txn.amount)
                                EXCEPT !.user = me.uid])
                   ELSE None
        visible == visible_rows(snap.db_txns, pending, me.env.autoflush)
        ctx == get_user_context(me.uid, Normalize(me.txn.receiver),
                                snap.db_users, snap.db_reputation, visible,
                                snap.cache_profile, snap.cache_reputation, TRUE)
        rr == evaluate(me.txn, ctx.context[1])
        out == combine_scores(rr.rule_score,
                              predict(me.txn, ctx.context[1], model,
                                      model_available, me.env.inference).ml_score,
                              rr.flags, ctx.context[1], me.txn)
    IN  IF snap.db_users[me.uid] = None
        THEN [context |-> None, rule_result |-> None, response |-> None,
              exception |-> Some("ValueError")]
        ELSE IF ctx.raised
        THEN [context |-> None, rule_result |-> None, response |-> None,
              exception |-> Some(ctx.error)]
        ELSE IF rr.hard_block
        THEN IF sv /\ ~me.env.commit_ok
             THEN [context |-> ctx.context, rule_result |-> Some(rr),
                   response |-> None, exception |-> Some("SQLAlchemyError")]
             ELSE [context |-> ctx.context, rule_result |-> Some(rr),
                   response |-> Some(create_blocked_response(w)),
                   exception |-> None]
        ELSE [context |-> ctx.context, rule_result |-> Some(rr),
              response |-> None,
              exception |-> IF out.raised THEN Some(out.error) ELSE None]

\* what the run of worker w comes to when it is the only run, with its own
\* save option
Alone(w, snap) == AloneWith(w, snap, workers[w].save)

\* both runs returned a decision for the same intent, user and option, and
\* found the same tables and cache when they started
SameRunTwice ==
    /\ workers[1].pc = "done"
    /\ workers[2].pc = "done"
    /\ workers[1].response # None
    /\ workers[2].response # None
    /\ workers[1].uid = workers[2].uid
    /\ workers[1].txn = workers[2].txn
    /\ workers[1].save = workers[2].save
    /\ workers[1].start = workers[2].start

C18_Independent ==
    \A w \in WorkerIds :
        (/\ WEnded(w)
         /\ \A v \in Started \ {w} : workers[v].uid # workers[w].uid)
        => WOutcome(w) = Alone(w, InitSnapshot)

\* both runs, for different users and the same blacklisted payee, saved and
\* returned; the run of u2 started after the run of u1 had filled the
\* reputation cache
C18_Witness ==
    /\ workers[1].pc = "done"
    /\ workers[2].pc = "done"
    /\ workers[1].uid # workers[2].uid
    /\ workers[1].txn.receiver = workers[2].txn.receiver
    /\ workers[1].save
    /\ workers[2].save
    /\ workers[2].response # None
    /\ workers[2].start[1].cache_reputation["mule@upi"] # None
    /\ workers[2].start[1].db_txns = workers[1].start[1].db_txns
    /\ Cardinality(db_events) = 2

\* ---------------------------------------------------------------------
\* SpecConfirm: payment_confirm (routers/payment.py lines 159-342) for two
\* requests of one user.  The handler is a coroutine: it is suspended at the
\* await of initiate_payment (line 244) and other requests run meanwhile.
\* ---------------------------------------------------------------------
PendingStatuses == {"pending", "PENDING"}

\* a row of the transactions table as payment_confirm reads it
ConfirmRow(tid, status) ==
    [tid |-> tid, user |-> "u1", status |-> status, age |-> 0,
     amount |-> 1000, receiver |-> "shop@upi"]

\* a row of receiver_history (lines 292-299)
HistoryRow(user, receiver, count, total) ==
    [user |-> user, receiver_upi |-> receiver, payment_count |-> count,
     total_amount |-> total]

\* a request that has not arrived; http is the status code of its answer
Request0 ==
    [pc |-> "idle", tid |-> 0, ack |-> FALSE, loaded_trust |-> 0,
     http |-> 0, status |-> ""]

InitConfirm ==
    /\ pc = "confirm"
    /\ txn_data = [amount |-> 0, receiver |-> "", device_id |-> ""]
    /\ context = None
    /\ RunIdle
    /\ NoModel
    /\ db_users = [u \in UserIds |-> IF u = "u1" THEN Some(UserRow0) ELSE None]
    /\ db_reputation = NoReputations
    /\ \E st \in {"PENDING", "pending", "COMPLETED", "failed", "cancelled",
                   "BLOCKED"} :
          db_txns = {ConfirmRow(1, "PENDING"), ConfirmRow(2, st)}
    /\ db_events = {}
    /\ cache_profile \in {NoProfiles,
                           [NoProfiles EXCEPT !["u1"] = Some(Profile0)]}
    /\ cache_reputation = NoReputations
    /\ db_history \in {{}, {HistoryRow("u1", "shop@upi", 1, 1000)}}
    /\ payments = <<>>
    /\ faults = {}
    /\ workers = [w \in WorkerIds |-> Request0]

ConfirmFrame ==
    UNCHANGED <<pc, txn_data, user_id, save, context, rule_result, ml_result,
                fused, action_result, response, exception, calls, new_txn,
                runs, model, model_available, db_reputation, db_events,
                cache_reputation, faults>>

\* the transactions table with the status of row tid set (the UPDATE of a
\* commit: it writes the attribute the session changed, whatever the row
\* holds by then)
SetStatus(rows, tid, status) ==
    {IF r.tid = tid THEN [r EXCEPT !.status = status] ELSE r : r \in rows}

\* lines 280-300: the history record of the payee is updated or created
UpdateHistory(history, user, receiver, amount) ==
    IF \E h \in history : h.user = user /\ h.receiver_upi = receiver
    THEN {IF h.user = user /\ h.receiver_upi = receiver
          THEN [h EXCEPT !.payment_count = @ + 1, !.total_amount = @ + amount]
          ELSE h : h \in history}
    ELSE history \cup {HistoryRow(user, receiver, 1, amount)}

\* lines 188-244, up to the await: lookup (404), status check (400),
\* cancellation (committed, answered), else the payment is initiated
ConfirmBegin(w) ==
    /\ workers[w].pc = "idle"
    /\ \E tid \in {1, 2, 3}, ack \in BOOLEAN :
          LET found == {r \in db_txns : r.tid = tid /\ r.user = "u1"}
              txn == CHOOSE r \in found : TRUE
          IN  IF found = {}
              THEN /\ workers' = [workers EXCEPT ![w] =
                          [@ EXCEPT !.pc = "done", !.tid = tid, !.ack = ack,
                                    !.http = 404]]
                   /\ UNCHANGED <<db_txns, payments>>
              ELSE IF txn.status \notin PendingStatuses
              THEN /\ workers' = [workers EXCEPT ![w] =
                          [@ EXCEPT !.pc = "done", !.tid = tid, !.ack = ack,
                                    !.http = 400]]
                   /\ UNCHANGED <<db_txns, payments>>
              ELSE IF ~ack
              THEN /\ db_txns' = SetStatus(db_txns, tid, "cancelled")
                   /\ workers' = [workers EXCEPT ![w] =
                          [@ EXCEPT !.pc = "done", !.tid = tid, !.ack = ack,
                                    !.http = 200, !.status = "cancelled"]]
                   /\ UNCHANGED payments
              ELSE /\ payments' = Append(payments, tid)
                   /\ workers' = [workers EXCEPT ![w] =
                          [@ EXCEPT !.pc = "awaiting", !.tid = tid, !.ack = ack,
                                    !.loaded_trust = db_users["u1"][1].trust_score]]
                   /\ UNCHANGED db_txns
    /\ ConfirmFrame
    /\ UNCHANGED <<db_users, db_history, cache_profile>>

\* lines 244-342, after the await: the result of the payment is written to
\* the row; on success the trust score the session loaded rises by 0.01
\* (capped at 1.0) and the receiver history is updated; the profile entry
\* is invalidated unless that fails; any exception marks the row failed
ConfirmFinish(w) ==
    /\ workers[w].pc = "awaiting"
    /\ \E result \in {"success", "failed", "error"}, invalidated \in BOOLEAN :
          LET me == workers[w]
              txn == CHOOSE r \in db_txns : r.tid = me.tid
          IN  /\ db_txns' = SetStatus(db_txns, me.tid,
                                      IF result = "success" THEN "COMPLETED"
                                      ELSE "failed")
              /\ db_users' = IF result = "success"
                             THEN [db_users EXCEPT !["u1"] =
                                     Some([@[1] EXCEPT !.trust_score =
                                             Min(ScoreOne, me.loaded_trust + 1)])]
                             ELSE db_users
              /\ db_history' = IF result = "success"
                               THEN UpdateHistory(db_history, "u1",
                                                  txn.receiver, txn.amount)
                               ELSE db_history
              /\ cache_profile' = IF result # "error" /\ invalidated
                                  THEN [cache_profile EXCEPT !["u1"] = None]
                                  ELSE cache_profile
              /\ result = "error" => invalidated
              /\ workers' = [workers EXCEPT ![w] =
                     [@ EXCEPT !.pc = "done",
                               !.http = IF result = "error" THEN 500 ELSE 200,
                               !.status = result]]
    /\ ConfirmFrame
    /\ UNCHANGED payments

NextConfirm ==
    \/ \E w \in WorkerIds : ConfirmBegin(w)
    \/ \E w \in WorkerIds : ConfirmFinish(w)

SpecConfirm == InitConfirm /\ [][NextConfirm]_vars

\* the status of transaction tid in the table
StatusOf(rows, tid) == (CHOOSE r \in rows : r.tid = tid).status

\* request w is answered in this step, having found a row that is not PENDING
RejectedNow(w) ==
    /\ workers[w].pc = "idle"
    /\ workers'[w].pc = "done"
    /\ \E r \in db_txns : /\ r.tid = workers'[w].tid
                            /\ r.status \notin PendingStatuses

\* C20: a confirm request for a transaction whose status is not PENDING is
\* answered 400, initiates no payment and leaves the transaction row, the
\* trust score and the receiver history as they are; and a transaction whose
\* status has left PENDING keeps that status for ever.
C20_ConfirmOnlyPending ==
    [][/\ \A w \in WorkerIds :
             RejectedNow(w) =>
                /\ workers'[w].http = 400
                /\ payments' = payments
                /\ db_txns' = db_txns
                /\ db_users' = db_users
                /\ db_history' = db_history
       /\ \A r \in db_txns :
             r.status \notin PendingStatuses =>
                StatusOf(db_txns', r.tid) = r.status]_vars

\* ---------------------------------------------------------------------
\* Further properties of evaluate, over SpecRules
\* ---------------------------------------------------------------------
\* the blacklist condition on the payee of the evaluated context
BlacklistHolds == check_blacklist(context[1].receiver_info).is_blacklisted

\* C21: whenever the blacklist condition holds, evaluate returns a
\* hard-blocked outcome on which no other check has run: its flag list is
\* empty and it holds no velocity, amount, device or failed-transaction
\* contribution.
C21_BlacklistFirst ==
    (pc = "rules_done" /\ BlacklistHolds)
    => /\ rule_result[1].hard_block
       /\ rule_result[1].flags = <<>>
       /\ rule_result[1].rule_breakdown.keys = {}

\* the payee of the evaluated context is new, as check_amount_anomaly reads it
PayeeIsNew ==
    LET receiver_info == context[1].receiver_info
    IN  IF receiver_info.keys = {} THEN TRUE
        ELSE DictGet(receiver_info, "is_new", FALSE)

\* the amount is more than 3 times the 30-day average (1000 when there is none)
AmountOverThriceAvg ==
    LET avg_in == context[1].txn_stats.avg_amount_30d
        avg == IF avg_in.n = 0 THEN Frac(1000, 1) ELSE avg_in
    IN  txn_data.amount * avg.d > 3 * avg.n

\* C22: the flag NEW_RECEIVER_HIGH_AMOUNT is in a rule outcome only when the
\* payee is new and the amount exceeds 3 times the 30-day average; an amount
\* anomaly on a payee that is not new adds score without raising the flag.
C22_NewReceiverFlag ==
    (pc = "rules_done"
     /\ "NEW_RECEIVER_HIGH_AMOUNT" \in SeqToSet(rule_result[1].flags))
    => (PayeeIsNew /\ AmountOverThriceAvg)

ForgivenessCase ==
    /\ DictGet(context[1].receiver_info, "is_new", TRUE)
    /\ txn_data.amount <= 250
    /\ 20 * txn_data.amount * context[1].txn_stats.avg_amount_30d.d
           <= context[1].txn_stats.avg_amount_30d.n
              + context[1].txn_stats.avg_amount_30d.d

\* C24: outside the forgiveness case the fused score is
\* clamp((0.70 x max(model_score, rule_score) + 0.30 x rule_score)
\*       x damage_multiplier, 0, 1), where with r = amount / (avg_30d + 1)
\* the multiplier is 0.25 if r < 0.3, 0.5 if r < 1.0, 0.8 if r < 3.0, else 1.0.
C24_FusionFormula ==
    (pc = "fuse_done" /\ ~ForgivenessCase)
    => LET rule == rule_result[1].rule_score
           ml == ml_result[1].ml_score
           avg == context[1].txn_stats.avg_amount_30d
           num == txn_data.amount * avg.d
           den == avg.n + avg.d
           multiplier == IF 10 * num < 3 * den THEN 25
                         ELSE IF num < den THEN 50
                         ELSE IF num < 3 * den THEN 80
                         ELSE 100
           raw == 70 * Max(ml, rule) + 30 * rule
       IN  /\ ~fused[1].raised
           /\ fused[1].value = Max(0, Min(FusedOne, raw * multiplier))

\* ---------------------------------------------------------------------
\* Further properties of payment_confirm, over SpecConfirm
\* ---------------------------------------------------------------------
\* the number of payments initiated for transaction tid
Initiated(tid) == Cardinality({i \in 1..Len(payments) : payments[i] = tid})

\* the requests whose success branch (lines 264-300) ran for transaction
\* tid: each raised the trust score and the payment_count of the payee
Credited(tid) ==
    {w \in WorkerIds : /\ workers[w].pc = "done"
                       /\ workers[w].tid = tid
                       /\ workers[w].status = "success"}

\* C25: for every transaction, whatever the interleaving of the confirm
\* requests on it, the payment service is asked to initiate payment at most
\* once, and the payment_count of the receiver history and the trust score
\* of the user are raised at most once.
C25_AtMostOncePerTransaction ==
    \A r \in db_txns :
        /\ Initiated(r.tid) <= 1
        /\ Cardinality(Credited(r.tid)) <= 1

\* ---------------------------------------------------------------------
\* SpecGuard: analyze_transaction with and without save, and confirm requests
\* on the rows it records.  analyze_transaction is a plain function called
\* from a coroutine, so a run is one step between the steps of the confirm
\* requests.
\* ---------------------------------------------------------------------
\* a row of the transactions table with its recorded decision (lines 76-83,
\* 105-108, 194-198); action_taken is "" until a decision is recorded
RecordedRow(tid, status, amount, receiver, action_taken) ==
    [tid |-> tid, user |-> "u1", status |-> status, age |-> 0,
     amount |-> amount, receiver |-> receiver, action_taken |-> action_taken]

\* committed_rows leaving the status of a hard-blocked row as it was added
committed_rows_status_kept(tid, txn, sv, rules, combined, action, commit_ok) ==
    IF ~sv \/ ~commit_ok THEN {}
    ELSE IF rules.hard_block
    THEN {RecordedRow(tid, "PENDING", txn.amount, Normalize(txn.receiver),
                      "BLOCK")}
    ELSE IF combined.raised THEN {}
    ELSE {RecordedRow(tid, "PENDING", txn.amount, Normalize(txn.receiver),
                      action.action)}

\* the rows a run commits: on a hard block the row as BLOCKED with the
\* decision BLOCK (lines 103-109); after the override the PENDING row with
\* the resolved action (lines 193-199), when _combine_scores has returned;
\* nothing without save, on a failed commit, or when the run raised
committed_rows(tid, txn, sv, rules, combined, action, commit_ok) ==
    IF ~sv \/ ~commit_ok THEN {}
    ELSE IF rules.hard_block
    THEN {RecordedRow(tid, "BLOCKED", txn.amount, Normalize(txn.receiver),
                      "BLOCK")}
    ELSE IF combined.raised THEN {}
    ELSE {RecordedRow(tid, "PENDING", txn.amount, Normalize(txn.receiver),
                      action.action)}

\* number of runs of analyze_transaction beside the confirm requests
MaxGuardRuns == 1

\* the transaction that was recorded before, still PENDING, has id 1; the
\* runs take the ids from 2
InitGuard ==
    /\ pc = "guard"
    /\ txn_data = [amount |-> 0, receiver |-> "", device_id |-> ""]
    /\ context = None
    /\ RunIdle
    /\ \E outcome \in LoadOutcomes :
          /\ model = load_model("None", outcome).model
          /\ model_available = load_model("None", outcome).model_available
    /\ db_users = [u \in UserIds |-> IF u = "u1" THEN Some(UserRow0) ELSE None]
    /\ db_reputation \in ReputationSet
    /\ \E a \in {"", "ALLOW", "WARNING"} :
          db_txns = {RecordedRow(1, "PENDING", 1000, "shop@upi", a)}
    /\ db_events = {}
    /\ cache_profile = [u \in UserIds |-> None]
    /\ cache_reputation = [r \in Receivers |-> None]
    /\ db_history = {}
    /\ payments = <<>>
    /\ faults = {}
    /\ workers = [w \in WorkerIds |-> Request0]

\* analyze_transaction (lines 36-234) for user u1, as one step
AnalyzeTransaction ==
    /\ pc = "guard"
    /\ runs < MaxGuardRuns
    /\ \E sv \in BOOLEAN, rcv \in {"Mule@UPI ", "new@upi"},
          autoflush \in SessionAutoflush :
          LET txn == [amount |-> 5001, receiver |-> rcv, device_id |-> "d9"]
              tid == runs + 2
              pending == IF sv
                         THEN Some(RecordedRow(tid, "PENDING", txn.amount,
                                               Normalize(rcv), ""))
                         ELSE None
              out == get_user_context("u1", Normalize(rcv), db_users,
                                      db_reputation,
                                      visible_rows(db_txns, pending, autoflush),
                                      cache_profile, cache_reputation, TRUE)
              ctx == out.context[1]
              rules == evaluate(txn, ctx)
          IN  /\ txn_data' = txn
              /\ save' = sv
              /\ runs' = runs + 1
              /\ context' = out.context
              /\ rule_result' = Some(rules)
              /\ cache_profile' = out.cache_profile
              /\ cache_reputation' = out.cache_reputation
              /\ IF rules.hard_block
                 THEN \E commit_ok \in BOOLEAN :
                        LET rows == committed_rows(tid, txn, sv, rules,
                                                   Raised(""), None, commit_ok)
                        IN  /\ sv \/ commit_ok
                            /\ db_txns' = db_txns \cup rows
                            /\ db_events' =
                                   IF rows # {}
                                   THEN db_events \cup {BlockEvent("u1", tid)}
                                   ELSE db_events
                            /\ exception' = IF commit_ok THEN None
                                            ELSE Some("SQLAlchemyError")
                            /\ response' =
                                   IF commit_ok
                                   THEN Some(create_blocked_response(tid))
                                   ELSE None
                            /\ faults' = IF commit_ok THEN faults
                                         ELSE faults \cup {<<"commit", tid>>}
                 ELSE \E outcome \in InferenceOutcomes, base \in Actions :
                        LET ml == predict(txn, ctx, model, model_available,
                                          outcome)
                            combined ==
                                combine_scores(rules.rule_score, ml.ml_score,
                                               rules.flags, ctx, txn)
                            action ==
                                apply_policy([action |-> base,
                                              risk_level |-> "LOW",
                                              requires_otp |-> FALSE],
                                             combined.value,
                                             identity_risk(rules.flags, ctx))
                        IN  /\ db_txns' = db_txns
                                  \cup committed_rows(tid, txn, sv, rules,
                                                      combined, action, TRUE)
                            /\ exception' = IF combined.raised
                                            THEN Some(combined.error)
                                            ELSE None
                            /\ UNCHANGED <<db_events, response, faults>>
    /\ UNCHANGED <<pc, user_id, ml_result, fused, action_result, calls,
                   new_txn, model, model_available, db_users, db_reputation,
                   db_history, payments, workers>>

NextGuard ==
    \/ AnalyzeTransaction
    \/ \E w \in WorkerIds : ConfirmBegin(w)
    \/ \E w \in WorkerIds : ConfirmFinish(w)

SpecGuard == InitGuard /\ [][NextGuard]_vars

\* C26: no transaction whose recorded risk decision is BLOCK reaches the
\* status COMPLETED, whatever confirm requests are made on it.
C26_BlockedNeverCompleted ==
    \A r \in db_txns : r.action_taken = "BLOCK" => r.status # "COMPLETED"

\* a run has recorded a BLOCK decision, and a confirm request on that
\* transaction from a user who acknowledged has been answered
C26_Witness ==
    \E r \in db_txns, w \in WorkerIds :
        /\ r.action_taken = "BLOCK"
        /\ workers[w].pc = "done"
        /\ workers[w].tid = r.tid
        /\ workers[w].ack
        /\ workers[w].http = 400

\* ---------------------------------------------------------------------
\* The save option, over SpecPair
\* ---------------------------------------------------------------------
\* the run of worker w has ended, no run for the same user ran beside it,
\* and the store took what it wrote
RanUndisturbed(w) ==
    /\ WEnded(w)
    /\ \A v \in Started \ {w} : workers[v].uid # workers[w].uid
    /\ workers[w].env.commit_ok

RuleFlags ==
    {"VELOCITY_SPIKE", "NEW_RECEIVER_HIGH_AMOUNT", "DEVICE_CHANGE",
     "HIGH_FAILED_TXN"}

\* C28: in every run the rule flags are among VELOCITY_SPIKE,
\* NEW_RECEIVER_HIGH_AMOUNT, DEVICE_CHANGE and HIGH_FAILED_TXN and the
\* statistics carry no impossible-travel indicator, so identity_risk is
\* false and the override, whatever the baseline action and the fused score,
\* yields neither OTP_REQUIRED nor BLOCK of its own.
C28_NoIdentityRisk ==
    (context # None /\ rule_result # None)
    => /\ SeqToSet(rule_result[1].flags) \subseteq RuleFlags
       /\ "impossible_travel_flag" \notin context[1].txn_stats.keys
       /\ ~identity_risk(rule_result[1].flags, context[1])
       /\ \A base \in Actions, final_score \in FinalScoreSet :
             apply_policy([action |-> base, risk_level |-> "LOW",
                           requires_otp |-> FALSE], final_score,
                          identity_risk(rule_result[1].flags, context[1])).action
                \in {base, "WARNING"}

\* a run on a new device during a burst of payments, for a payee that is not
\* blacklisted: the flags that come closest to an identity signal are raised
C28_Witness ==
    /\ pc = "predict"
    /\ ~rule_result[1].hard_block
    /\ {"VELOCITY_SPIKE", "DEVICE_CHANGE", "NEW_RECEIVER_HIGH_AMOUNT"}
          \subseteq SeqToSet(rule_result[1].flags)
    /\ txn_data.device_id = "d9"

\* ---------------------------------------------------------------------
\* SpecCache: the end of a successful payment_confirm (payment.py lines
\* 268-314) beside runs of get_user_context for the same user on other
\* workers.  The store write, the cache deletion, the cache read, the store
\* read and the cache write are separate calls to the store and the cache.
\* ---------------------------------------------------------------------
\* number of runs of get_user_context on one worker
MaxReads == 2

\* a worker that has not called get_user_context; reads counts its calls,
\* late is whether the call began after the invalidation, hit whether it
\* found the profile in the cache
Reader0 ==
    [pc |-> "idle", reads |-> 0, late |-> FALSE, hit |-> FALSE,
     loaded |-> None, profile |-> None]

InitCache ==
    /\ pc = "paid"
    /\ txn_data = [amount |-> 0, receiver |-> "", device_id |-> ""]
    /\ context = None
    /\ RunIdle
    /\ NoModel
    /\ db_users = [u \in UserIds |-> IF u = "u1" THEN Some(UserRow0) ELSE None]
    /\ db_reputation = NoReputations
    /\ db_txns = {}
    /\ db_events = {}
    /\ cache_profile \in
          {NoProfiles,
           [NoProfiles EXCEPT !["u1"] = Some(user_profile_of("u1", UserRow0))]}
    /\ cache_reputation = NoReputations
    /\ db_history = {}
    /\ payments = <<>>
    /\ faults = {}
    /\ workers = [w \in WorkerIds |-> Reader0]

CacheFrame ==
    UNCHANGED <<txn_data, user_id, save, context, rule_result, ml_result,
                fused, action_result, response, exception, calls, new_txn,
                runs, model, model_available, db_reputation, db_txns,
                db_events, cache_reputation, db_history, payments>>

\* payment.py lines 268-307: the trust score rises by 0.01 and is committed
ConfirmCommit ==
    /\ pc = "paid"
    /\ db_users' = [db_users EXCEPT !["u1"] =
                        Some([@[1] EXCEPT !.trust_score = Min(ScoreOne, @ + 1)])]
    /\ pc' = "committed"
    /\ CacheFrame
    /\ UNCHANGED <<cache_profile, faults, workers>>

\* payment.py lines 310-314: the profile entry is deleted; a failure of the
\* cache is logged and swallowed
ConfirmInvalidate ==
    /\ pc = "committed"
    /\ \E ok \in BOOLEAN :
          /\ cache_profile' = IF ok THEN [cache_profile EXCEPT !["u1"] = None]
                              ELSE cache_profile
          /\ faults' = IF ok THEN faults ELSE faults \cup {<<"invalidate", 0>>}
          /\ pc' = IF ok THEN "invalidated" ELSE "confirmed"
    /\ CacheFrame
    /\ UNCHANGED <<db_users, workers>>

\* context_engine.py lines 52-72: the cache lookup and, on a miss, the read
\* of the users row and the profile built from it
ContextLookup(w) ==
    /\ workers[w].pc = "idle"
    /\ workers[w].reads < MaxReads
    /\ LET cached_profile == cache_profile["u1"]
       IN  workers' = [workers EXCEPT ![w] =
               IF cached_profile # None
               THEN [@ EXCEPT !.pc = "done", !.reads = @ + 1,
                              !.late = (pc = "invalidated"), !.hit = TRUE,
                              !.loaded = None, !.profile = cached_profile]
               ELSE [@ EXCEPT !.pc = "missed", !.reads = @ + 1,
                              !.late = (pc = "invalidated"), !.hit = FALSE,
                              !.loaded = Some(user_profile_of("u1",
                                                  db_users["u1"][1])),
                              !.profile = None]]
    /\ CacheFrame
    /\ UNCHANGED <<pc, db_users, cache_profile, faults>>

\* context_engine.py line 75: the profile that was built is written to the
\* cache, and the run goes on with it
ContextStore(w) ==
    /\ workers[w].pc = "missed"
    /\ cache_profile' = [cache_profile EXCEPT !["u1"] = workers[w].loaded]
    /\ workers' = [workers EXCEPT ![w] =
           [@ EXCEPT !.pc = "done", !.profile = workers[w].loaded]]
    /\ CacheFrame
    /\ UNCHANGED <<pc, db_users, faults>>

\* the run has returned; the worker takes its next request
ContextDone(w) ==
    /\ workers[w].pc = "done"
    /\ workers[w].reads < MaxReads
    /\ workers' = [workers EXCEPT ![w] = [@ EXCEPT !.pc = "idle"]]
    /\ CacheFrame
    /\ UNCHANGED <<pc, db_users, cache_profile, faults>>

NextCache ==
    \/ ConfirmCommit
    \/ ConfirmInvalidate
    \/ \E w \in WorkerIds : ContextLookup(w)
    \/ \E w \in WorkerIds : ContextStore(w)
    \/ \E w \in WorkerIds : ContextDone(w)

SpecCache == InitCache /\ [][NextCache]_vars

\* C29: after a successful confirm has committed the new trust score and
\* invalidated the cached profile, no run that begins later reads from the
\* cache a profile with the trust score of before the confirm, however the
\* confirm interleaves with runs of get_user_context that fill the cache.
C29_NoStaleProfileAfterInvalidate ==
    \A w \in WorkerIds :
        (/\ workers[w].pc = "done"
         /\ workers[w].late
         /\ workers[w].hit)
        => workers[w].profile[1].trust_score # UserRow0.trust_score

\* ---------------------------------------------------------------------
\* The payee's novelty in the two engines, over Spec
\* ---------------------------------------------------------------------
\* C30: within one run the rule evaluator and the probabilistic scorer agree
\* on whether the payee is new: for a payee without a reputation record, a
\* payee with one, and no payee (empty reputation info), check_amount_anomaly
\* treats the payee as new exactly when engineer_features sets
\* is_new_receiver to 1.
C30_EnginesAgreeOnNewPayee ==
    (context # None /\ rule_result # None /\ ml_result # None)
    => (PayeeIsNew <=> ml_result[1].features.is_new_receiver = 1)

====
